---- MODULE Spec2Model ----
(***************************************************************************)
(* Job lifecycle coordination of the Sora video bot (src/sora_bot).        *)
(*                                                                         *)
(* The process is a single asyncio event loop.  Every action below is one  *)
(* scheduling quantum of one task: the awaited call the task was blocked   *)
(* on completes (its effect on Baserow / the vendor / Telegram happens)    *)
(* and the task runs its local code up to the next await.  Other tasks can *)
(* therefore run between any two awaits of a task, and never in between    *)
(* two statements that are not separated by an await.  Awaits whose call   *)
(* neither reads nor writes modelled state (request.json, generate_caption,*)
(* informational Telegram messages) are merged into the following step.    *)
(***************************************************************************)
EXTENDS Integers, Sequences, FiniteSets, TLC

\* ------------------------------------------------------------------ bounds
NumRecords == 2
NumReady == 1
MaxDeliveries == 2
MaxCrashes == 1
MaxWebhooks == 1
NumJobs == 2
MaxFaults == 1

\* ------------------------------------------------------- program constants
STALE_THRESHOLD_MINUTES == 30
CHECK_INTERVAL_SECONDS == 600

\* One tick of the model clock.  A tick is as long as the staleness
\* threshold, so an age is 0, exactly the threshold (not yet stale, the
\* comparison is strict) or above it; ages saturate above the threshold.
TickMinutes == STALE_THRESHOLD_MINUTES
AgeCap == STALE_THRESHOLD_MINUTES + TickMinutes

Records == 1..NumRecords
\* generate_video returns a fresh uuid per call: the uuids the vendor can
\* hand out, in the order it hands them out.
Jobs == 1..NumJobs
NoUuid == 0
NoVideo == 0
NoChat == 0
UserChat == 1
NoJob == [record_id |-> 0, status |-> "none", chat_id |-> NoChat, age |-> 0]

WebIds == {<<"web", i>> : i \in 1..MaxWebhooks}
PollIds == {<<"poll", j>> : j \in Jobs}
SweepId == <<"sweep", 0>>
TaskIds == WebIds \cup PollIds \cup {SweepId}

\* no baserow_client call is being followed
NoCall == [fn |-> "none", pc |-> "done"]

NoBroadcast == [kind |-> "none", completed |-> 0, failed |-> 0, timeout |-> 0]

Idle == [pc |-> "idle", uuid |-> NoUuid, url |-> NoVideo, rec |-> 0,
         chat |-> NoChat, event |-> "none", late |-> FALSE, mem |-> FALSE]

Terminal == {"Completed", "Error"}

VARIABLES
    records,       \* Baserow "Reels Generation" rows: Status, Generation UUID, Video, Ready To Generate
    post_queue,    \* number of Post Queue rows created per source record
    pending_jobs,  \* config.pending_jobs: uuid -> job info (NoJob: key absent)
    vendor,        \* GeminiGen side: per uuid its status and whether a media url exists
    notifs,        \* per-job Telegram messages sent, per record: <<[kind, to]>>
    broadcast,     \* last aggregate Telegram message (restart notice, sweep summary)
    patches,       \* terminal status patches applied per record: <<[st, by, late, mem]>>
    task,          \* webhook handlers, recovery pollers and the sweep: position and locals
    sweep,         \* locals of cleanup_stale_jobs: processing_records, loop index, counters
    gen,           \* locals of handle_generate_command
    rehyd,         \* locals of recover_pending_jobs
    phase,         \* "recovering" while main awaits recover_pending_jobs, then "serving"
    sinceSubmit,   \* minutes since the record was marked Processing (saturating)
    beforeRestart, \* per uuid: minutes its job had been pending that started_at no longer shows
    processed,     \* uuids for which a complete_video_generation run has finished
    handled,       \* per uuid: webhook events whose handler ran to its response after the last start
    discarded,     \* uuids of signals dropped as "not in memory or Baserow"
    sweptYoung,    \* records a sweep cycle examined while running at the vendor and not over age
    rhNoUuid,      \* records the Rehydrator found Processing without a Generation UUID
    deliveries,    \* webhook deliveries so far
    crashes,       \* process restarts so far
    atRestart,     \* uuids stored on Processing records when the process last died
    cut,           \* records whose terminal path a process death cut short after its patch
    faults,        \* Baserow calls (answer other than 200/201, or none) and vendor status calls that have failed so far
    call           \* one call of a baserow_client function, followed request by request

vars == <<records, post_queue, pending_jobs, vendor, notifs, broadcast, patches,
          task, sweep, gen, rehyd, phase, sinceSubmit, beforeRestart, processed, handled,
          discarded, sweptYoung, rhNoUuid, deliveries, crashes, atRestart, cut, faults, call>>

store == <<records, post_queue>>
ghosts == <<processed, handled, discarded, sweptYoung, rhNoUuid>>

\* ----------------------------------------------------------------- helpers
Range(s) == {s[i] : i \in 1..Len(s)}

RECURSIVE SortedSeq(_)
SortedSeq(S) ==
    IF S = {} THEN <<>>
    ELSE LET m == CHOOSE x \in S : \A y \in S : x <= y
         IN <<m>> \o SortedSeq(S \ {m})

InRegistry(j) == pending_jobs[j] # NoJob

Audience(chat) == IF chat # NoChat THEN chat ELSE NoChat


\* ------------------------------------------------- Baserow client (store)
\* get_record_by_uuid with a filter that matches no row
get_record_by_uuid_nomatch(uuid) == 0

\* get_record_by_uuid: first row whose Generation UUID equals uuid, whatever
\* its Status; 0 stands for None.
get_record_by_uuid(uuid) ==
    LET hits == {r \in Records : records[r].uuid = uuid}
    IN IF hits = {} THEN 0 ELSE CHOOSE r \in hits : \A q \in hits : r <= q

\* get_records_by_status: the rows with that Status, as the list of the
\* fields the callers read (id, Generation UUID).
get_records_by_status(status) ==
    LET ids == SortedSeq({r \in Records : records[r].status = status})
    IN [i \in 1..Len(ids) |-> [id |-> ids[i], uuid |-> records[ids[i]].uuid]]

\* get_ready_records: rows flagged Ready To Generate whose Status is Draft.
get_ready_records ==
    SortedSeq({r \in Records : records[r].ready /\ records[r].status = "Draft"})

\* upload_video_to_baserow: the name of the uploaded file (written as the
\* asset it holds), or None when the download or the upload fails.
upload_video_to_baserow(video_url, ok) == IF ok THEN video_url ELSE NoVideo

\* update_record_status: PATCH Status; with a video_url also Ready To
\* Generate = False and, when the upload gave a file, the Video field.
update_record_status(recs, r, status, video_url, file_token) ==
    [recs EXCEPT ![r] = [@ EXCEPT
        !.status = status,
        !.video = IF video_url # NoVideo /\ file_token # NoVideo THEN file_token ELSE @,
        !.ready = IF video_url # NoVideo THEN FALSE ELSE @]]

\* save_generation_uuid: PATCH Generation UUID.
save_generation_uuid(recs, r, uuid) ==
    [recs EXCEPT ![r] = [@ EXCEPT !.uuid = uuid]]

\* helpers.get_next_available_slot reads timezone.utc, but helpers.py imports
\* only datetime and timedelta: the call raises NameError before any slot
\* is computed.
get_next_available_slot == "NameError"

LogPatch(log, r, st, by, late, mem) ==
    [log EXCEPT ![r] = Append(@, [st |-> st, by |-> by, late |-> late, mem |-> mem])]

Notify(log, r, kind, chat) ==
    [log EXCEPT ![r] = Append(@, [kind |-> kind, to |-> Audience(chat)])]

\* -------------------------------------------------------------------- Init
\* The process has just been started (main is about to await
\* recover_pending_jobs); the table holds Draft rows, the first n of them
\* flagged Ready To Generate.
InitWith(n) ==
    /\ records = [r \in Records |-> [status |-> "Draft", uuid |-> NoUuid,
                                     video |-> NoVideo, ready |-> r <= n]]
    /\ post_queue = [r \in Records |-> 0]
    /\ pending_jobs = [j \in Jobs |-> NoJob]
    /\ vendor = [j \in Jobs |-> [st |-> "absent", url |-> FALSE]]
    /\ notifs = [r \in Records |-> <<>>]
    /\ broadcast = NoBroadcast
    /\ patches = [r \in Records |-> <<>>]
    /\ task = [t \in TaskIds |-> Idle]
    /\ sweep = [snap |-> <<>>, idx |-> 0, completed |-> 0, failed |-> 0, timeout |-> 0]
    /\ gen = [pc |-> "idle", snap |-> <<>>, idx |-> 0, uuid |-> NoUuid]
    /\ rehyd = [pc |-> "rh_list", snap |-> <<>>, idx |-> 0]
    /\ phase = "recovering"
    /\ sinceSubmit = [r \in Records |-> 0]
    /\ beforeRestart = [j \in Jobs |-> 0]
    /\ processed = {}
    /\ handled = [j \in Jobs |-> {}]
    /\ discarded = {}
    /\ sweptYoung = {}
    /\ rhNoUuid = {}
    /\ deliveries = 0
    /\ crashes = 0
    /\ atRestart = {}
    /\ cut = {}
    /\ faults = 0

Init == InitWith(NumReady) /\ call = NoCall

\* ------------------------------------------------- handle_generate_command
GenRec == gen.snap[gen.idx]

\* end of one loop iteration: next ready record, or the command is done
GenAdvance ==
    IF gen.idx < Len(gen.snap)
    THEN [gen EXCEPT !.pc = "g_patch", !.idx = @ + 1, !.uuid = NoUuid]
    ELSE [pc |-> "idle", snap |-> <<>>, idx |-> 0, uuid |-> NoUuid]

\* /generate arrives; get_ready_records answers
GenQuery ==
    /\ phase = "serving"
    /\ gen.pc = "idle"
    /\ get_ready_records # <<>>
    /\ gen' = [pc |-> "g_patch", snap |-> get_ready_records, idx |-> 1, uuid |-> NoUuid]
    /\ UNCHANGED <<store, pending_jobs, vendor, notifs, broadcast, patches, task,
                   sweep, rehyd, phase, sinceSubmit, beforeRestart, ghosts, deliveries, crashes, atRestart, cut, faults, call>>

\* update_record_status(record_id, 'Processing') lands
GenPatch ==
    /\ gen.pc = "g_patch"
    /\ records' = update_record_status(records, GenRec, "Processing", NoVideo, NoVideo)
    /\ sinceSubmit' = [sinceSubmit EXCEPT ![GenRec] = 0]
    /\ beforeRestart' = beforeRestart
    /\ gen' = [gen EXCEPT !.pc = "g_submit"]
    /\ UNCHANGED <<post_queue, pending_jobs, vendor, notifs, broadcast, patches, task,
                   sweep, rehyd, phase, ghosts, deliveries, crashes, atRestart, cut, faults, call>>

\* update_record_status(record_id, 'Processing') fails: it returns False,
\* the row is as it was, and the loop body goes on to generate_video
GenPatchFails ==
    /\ gen.pc = "g_patch"
    /\ faults < MaxFaults
    /\ faults' = faults + 1
    /\ gen' = [gen EXCEPT !.pc = "g_submit"]
    /\ UNCHANGED <<store, pending_jobs, vendor, notifs, broadcast, patches, task,
                   sweep, rehyd, phase, sinceSubmit, beforeRestart, ghosts, deliveries, crashes,
                   atRestart, cut, call>>

\* the uuid the vendor hands out next
FreshUuid ==
    CHOOSE j \in Jobs : /\ vendor[j].st = "absent"
                        /\ \A k \in Jobs : vendor[k].st = "absent" => j <= k

\* generate_video answers: a uuid, or it raises (non-200, no uuid)
GenSubmit ==
    /\ gen.pc = "g_submit"
    /\ \/ /\ \E j \in Jobs : vendor[j].st = "absent"
          /\ vendor' = [vendor EXCEPT ![FreshUuid] = [st |-> "running", url |-> FALSE]]
          /\ gen' = [gen EXCEPT !.pc = "g_save", !.uuid = FreshUuid]
       \/ /\ vendor' = vendor
          /\ gen' = [gen EXCEPT !.pc = "g_err_patch"]
    /\ UNCHANGED <<store, pending_jobs, notifs, broadcast, patches, task,
                   sweep, rehyd, phase, sinceSubmit, beforeRestart, ghosts, deliveries, crashes, atRestart, cut, faults, call>>

\* save_generation_uuid lands, then pending_jobs[uuid] = {...}
GenSave ==
    /\ gen.pc = "g_save"
    /\ records' = save_generation_uuid(records, GenRec, gen.uuid)
    /\ pending_jobs' = [pending_jobs EXCEPT ![gen.uuid] =
                           [record_id |-> GenRec, status |-> "generating",
                            chat_id |-> UserChat, age |-> 0]]
    /\ gen' = [gen EXCEPT !.pc = "g_started"]
    /\ UNCHANGED <<post_queue, vendor, notifs, broadcast, patches, task,
                   sweep, rehyd, phase, sinceSubmit, beforeRestart, ghosts, deliveries, crashes, atRestart, cut, faults, call>>

\* save_generation_uuid fails: it returns False, the uuid is not stored;
\* pending_jobs[uuid] = {...} all the same
GenSaveFails ==
    /\ gen.pc = "g_save"
    /\ faults < MaxFaults
    /\ faults' = faults + 1
    /\ pending_jobs' = [pending_jobs EXCEPT ![gen.uuid] =
                           [record_id |-> GenRec, status |-> "generating",
                            chat_id |-> UserChat, age |-> 0]]
    /\ gen' = [gen EXCEPT !.pc = "g_started"]
    /\ UNCHANGED <<store, vendor, notifs, broadcast, patches, task,
                   sweep, rehyd, phase, sinceSubmit, beforeRestart, ghosts, deliveries, crashes,
                   atRestart, cut, call>>

\* the "Started" message is sent; next record
GenStarted ==
    /\ gen.pc = "g_started"
    /\ gen' = GenAdvance
    /\ UNCHANGED <<store, pending_jobs, vendor, notifs, broadcast, patches, task,
                   sweep, rehyd, phase, sinceSubmit, beforeRestart, ghosts, deliveries, crashes, atRestart, cut, faults, call>>

\* except branch: update_record_status(record_id, 'Error') lands
GenErrPatch ==
    /\ gen.pc = "g_err_patch"
    /\ records' = update_record_status(records, GenRec, "Error", NoVideo, NoVideo)
    /\ patches' = LogPatch(patches, GenRec, "Error", "submit", FALSE, FALSE)
    /\ gen' = [gen EXCEPT !.pc = "g_err_notify"]
    /\ UNCHANGED <<post_queue, pending_jobs, vendor, notifs, broadcast, task,
                   sweep, rehyd, phase, sinceSubmit, beforeRestart, ghosts, deliveries, crashes, atRestart, cut, faults, call>>

\* except branch: the error message is sent; next record
GenErrNotify ==
    /\ gen.pc = "g_err_notify"
    /\ notifs' = Notify(notifs, GenRec, "submit_error", UserChat)
    /\ gen' = GenAdvance
    /\ UNCHANGED <<store, pending_jobs, vendor, broadcast, patches, task,
                   sweep, rehyd, phase, sinceSubmit, beforeRestart, ghosts, deliveries, crashes, atRestart, cut, faults, call>>

Generate ==
    \/ GenQuery \/ GenPatch \/ GenSubmit \/ GenSave \/ GenStarted
    \/ GenErrPatch \/ GenErrNotify

\* ------------------------------------------------------ vendor and clock
\* The vendor finishes a job (with or without a media url), fails it, or
\* reports a status code other than 1, 2, 3 for a while.
VendorStep(j) ==
    /\ \/ /\ vendor[j].st = "running"
          /\ \/ \E u \in BOOLEAN : vendor' = [vendor EXCEPT ![j] = [st |-> "completed", url |-> u]]
             \/ vendor' = [vendor EXCEPT ![j].st = "failed"]
             \/ vendor' = [vendor EXCEPT ![j].st = "other"]
       \/ /\ vendor[j].st = "other"
          /\ vendor' = [vendor EXCEPT ![j].st = "running"]
    /\ UNCHANGED <<store, pending_jobs, notifs, broadcast, patches, task, sweep, gen,
                   rehyd, phase, sinceSubmit, beforeRestart, ghosts, deliveries, crashes, atRestart, cut, faults, call>>

\* a row with Status = Processing stores the uuid
OnProcessingRow(j) ==
    \E r \in Records : records[r].status = "Processing" /\ records[r].uuid = j

\* minutes since the submission stored pending_jobs[uuid]: what started_at
\* shows, plus what a restart has made it forget
SinceStarted(j) ==
    IF beforeRestart[j] + pending_jobs[j].age > AgeCap
    THEN AgeCap ELSE beforeRestart[j] + pending_jobs[j].age

Older(a) == IF a + TickMinutes > AgeCap THEN AgeCap ELSE a + TickMinutes

\* time passes: now - started_at grows for every job.  A sweep cycle reads
\* now once, when it starts, and is over within one tick of the clock: the
\* clock moves between cycles, so the age a cycle computes is the age at
\* its check.
Tick ==
    /\ task[SweepId].pc = "idle"
    /\ pending_jobs' = [j \in Jobs |->
            IF InRegistry(j) THEN [pending_jobs[j] EXCEPT !.age = Older(@)] ELSE NoJob]
    /\ sinceSubmit' = [r \in Records |->
            IF records[r].status = "Processing" THEN Older(sinceSubmit[r]) ELSE sinceSubmit[r]]
    /\ beforeRestart' = [j \in Jobs |->
            IF ~InRegistry(j) /\ OnProcessingRow(j)
            THEN Older(beforeRestart[j]) ELSE beforeRestart[j]]
    /\ <<pending_jobs', sinceSubmit'>> # <<pending_jobs, sinceSubmit>>
    /\ UNCHANGED <<store, vendor, notifs, broadcast, patches, task, sweep, gen,
                   rehyd, phase, ghosts, deliveries, crashes, atRestart, cut, faults, call>>


\* ------------------------------------------------------ vendor status API
\* sora_api.check_job_status: the vendor's current answer for uuid, as the
\* dict cleanup_stale_jobs reads (status 1 processing, 2 completed, 3 failed,
\* anything else unknown; media_url when there is one).
check_job_status(uuid) ==
    [status |-> CASE vendor[uuid].st = "running" -> 1
                  [] vendor[uuid].st = "completed" -> 2
                  [] vendor[uuid].st = "failed" -> 3
                  [] OTHER -> 0,
     media_url |-> IF vendor[uuid].st = "completed" /\ vendor[uuid].url THEN uuid ELSE NoVideo]

\* ------------------------------------------------ cleanup_stale_jobs loop
SweepRest == [snap |-> <<>>, idx |-> 0, completed |-> 0, failed |-> 0, timeout |-> 0]

\* the loop's way on with a summary that is sent whatever the counters say
SweepPcAlways(sw) ==
    IF sw.idx < Len(sw.snap)
    THEN IF sw.snap[sw.idx + 1].uuid = NoUuid THEN "sw_err_patch" ELSE "sw_check"
    ELSE "sw_summary"

\* the for loop moves on from the current record: the branch of the next
\* record up to its first await, or after the last record the summary
SweepPc(sw) ==
    IF sw.idx < Len(sw.snap)
    THEN IF sw.snap[sw.idx + 1].uuid = NoUuid THEN "sw_err_patch" ELSE "sw_check"
    ELSE IF sw.completed + sw.failed + sw.timeout > 0 THEN "sw_summary" ELSE "idle"

SweepLocal(sw) ==
    IF sw.idx < Len(sw.snap)
    THEN [Idle EXCEPT !.pc = SweepPc(sw),
                      !.uuid = sw.snap[sw.idx + 1].uuid,
                      !.rec = sw.snap[sw.idx + 1].id,
                      !.event = IF sw.snap[sw.idx + 1].uuid = NoUuid THEN "no_uuid" ELSE "none"]
    ELSE [Idle EXCEPT !.pc = SweepPc(sw)]

SweepMove(sw) ==
    IF SweepPc(sw) = "idle" THEN SweepRest ELSE [sw EXCEPT !.idx = @ + 1]

\* ------------------------------------------- complete_video_generation
\* job = pending_jobs.get(uuid), up to the first await of the function
CvgBegin(t, uuid, video_url) ==
    IF InRegistry(uuid)
    THEN [t EXCEPT !.pc = "cvg_patch", !.uuid = uuid, !.url = video_url,
                   !.rec = pending_jobs[uuid].record_id,
                   !.chat = pending_jobs[uuid].chat_id,
                   !.late = uuid \in processed, !.mem = TRUE]
    ELSE [t EXCEPT !.pc = "cvg_lookup", !.uuid = uuid, !.url = video_url,
                   !.late = uuid \in processed]

\* the caller resumes after complete_video_generation (or after its own
\* last statement): a webhook handler answers 200, a poller task ends, the
\* sweep counts the job as completed and goes to its next record
Resume(self, counted) ==
    CASE self[1] = "web" ->
            /\ task' = [task EXCEPT ![self] = Idle]
            /\ handled' = [handled EXCEPT ![task[self].uuid] = @ \cup {task[self].event}]
            /\ sweep' = sweep
      [] self[1] = "poll" ->
            /\ task' = [task EXCEPT ![self] = Idle]
            /\ UNCHANGED <<handled, sweep>>
      [] OTHER ->
            LET sw == IF counted THEN [sweep EXCEPT !.completed = @ + 1] ELSE sweep
            IN /\ task' = [task EXCEPT ![self] = SweepLocal(sw)]
               /\ sweep' = SweepMove(sw)
               /\ handled' = handled

\* get_record_by_uuid answers (job was not in memory)
CvgLookup(self) ==
    /\ task[self].pc = "cvg_lookup"
    /\ LET r == get_record_by_uuid(task[self].uuid)
       IN IF r # 0
          THEN /\ task' = [task EXCEPT ![self] = [@ EXCEPT !.pc = "cvg_patch", !.rec = r, !.chat = NoChat]]
               /\ UNCHANGED <<handled, sweep, discarded>>
          ELSE /\ discarded' = discarded \cup {task[self].uuid}
               /\ Resume(self, TRUE)
    /\ UNCHANGED <<store, pending_jobs, vendor, notifs, broadcast, patches, gen, rehyd,
                   phase, sinceSubmit, beforeRestart, processed, sweptYoung, rhNoUuid, deliveries, crashes, atRestart, cut, faults, call>>

\* update_record_status(record_id, 'Completed', video_url): the video is
\* uploaded and the PATCH lands; ok tells whether upload_video_to_baserow
\* gave a file
CvgPatchWith(self, ok) ==
    /\ task[self].pc = "cvg_patch"
    /\ records' = update_record_status(records, task[self].rec, "Completed",
                        task[self].url, upload_video_to_baserow(task[self].url, ok))
    /\ patches' = LogPatch(patches, task[self].rec, "Completed", self[1], task[self].late,
                        task[self].mem)
    /\ task' = [task EXCEPT ![self].pc = "cvg_notify"]
    /\ UNCHANGED <<post_queue, pending_jobs, vendor, notifs, broadcast, sweep, gen, rehyd,
                   phase, sinceSubmit, beforeRestart, ghosts, deliveries, crashes, atRestart, cut, call>>

CvgPatch(self) ==
    /\ CvgPatchWith(self, TRUE)
    /\ faults' = faults

\* the download or the upload of the video fails: the PATCH is sent without
\* the Video field
CvgUploadFails(self) ==
    /\ faults < MaxFaults
    /\ faults' = faults + 1
    /\ CvgPatchWith(self, FALSE)

\* the PATCH of update_record_status(record_id, 'Completed', video_url)
\* fails: it returns False, the row is as it was, and
\* complete_video_generation goes on
CvgPatchFails(self) ==
    /\ task[self].pc = "cvg_patch"
    /\ faults < MaxFaults
    /\ faults' = faults + 1
    /\ task' = [task EXCEPT ![self].pc = "cvg_notify"]
    /\ UNCHANGED <<store, pending_jobs, vendor, notifs, broadcast, patches, sweep, gen, rehyd,
                   phase, sinceSubmit, beforeRestart, ghosts, deliveries, crashes, atRestart, cut, call>>

\* complete_video_generation without its finally block: the job stays in
\* pending_jobs
CvgNotifyKeepsJob(self) ==
    /\ task[self].pc = "cvg_notify"
    /\ IF get_next_available_slot = "NameError"
       THEN /\ notifs' = Notify(notifs, task[self].rec, "degraded", task[self].chat)
            /\ post_queue' = post_queue
       ELSE /\ notifs' = Notify(notifs, task[self].rec, "success", task[self].chat)
            /\ post_queue' = [post_queue EXCEPT ![task[self].rec] = @ + 1]
    /\ processed' = processed \cup {task[self].uuid}
    /\ Resume(self, TRUE)
    /\ UNCHANGED <<records, pending_jobs, vendor, broadcast, patches, gen, rehyd, phase,
                   sinceSubmit, beforeRestart, discarded, sweptYoung, rhNoUuid, deliveries, crashes,
                   atRestart, cut, faults, call>>

\* complete_video_generation with an except branch that only logs: nothing
\* is sent when a step after the patch raises
CvgNotifySilent(self) ==
    /\ task[self].pc = "cvg_notify"
    /\ IF get_next_available_slot = "NameError"
       THEN /\ notifs' = notifs
            /\ post_queue' = post_queue
       ELSE /\ notifs' = Notify(notifs, task[self].rec, "success", task[self].chat)
            /\ post_queue' = [post_queue EXCEPT ![task[self].rec] = @ + 1]
    /\ pending_jobs' = [pending_jobs EXCEPT ![task[self].uuid] = NoJob]
    /\ processed' = processed \cup {task[self].uuid}
    /\ Resume(self, TRUE)
    /\ UNCHANGED <<records, vendor, broadcast, patches, gen, rehyd, phase, sinceSubmit, beforeRestart,
                   discarded, sweptYoung, rhNoUuid, deliveries, crashes, atRestart, cut, faults, call>>

\* generate_caption and create_post_queue_record ran; the Telegram message
\* (success, or "Video ready but save failed" from the except branch) is
\* sent; finally: the job leaves pending_jobs
CvgNotify(self) ==
    /\ task[self].pc = "cvg_notify"
    /\ IF get_next_available_slot = "NameError"
       THEN /\ notifs' = Notify(notifs, task[self].rec, "degraded", task[self].chat)
            /\ post_queue' = post_queue
       ELSE /\ notifs' = Notify(notifs, task[self].rec, "success", task[self].chat)
            /\ post_queue' = [post_queue EXCEPT ![task[self].rec] = @ + 1]
    /\ pending_jobs' = [pending_jobs EXCEPT ![task[self].uuid] = NoJob]
    /\ processed' = processed \cup {task[self].uuid}
    /\ Resume(self, TRUE)
    /\ UNCHANGED <<records, vendor, broadcast, patches, gen, rehyd, phase, sinceSubmit, beforeRestart,
                   discarded, sweptYoung, rhNoUuid, deliveries, crashes, atRestart, cut, faults, call>>


\* ----------------------------------------------------- handle_sora_webhook
\* the dispatch with an unrecognised event falling into the failed branch
WebhookArriveAnyAsFailed(self, j, ev) ==
    /\ task[self].pc = "idle"
    /\ deliveries < MaxDeliveries
    /\ deliveries' = deliveries + 1
    /\ CASE ev = "completed" -> vendor[j].st = "completed"
         [] ev = "failed" -> vendor[j].st = "failed"
         [] OTHER -> vendor[j].st \in {"running", "other"}
    /\ LET t == [Idle EXCEPT !.uuid = j, !.event = ev]
       IN CASE ev = "completed" /\ vendor[j].url ->
                 /\ task' = [task EXCEPT ![self] = CvgBegin(t, j, j)]
                 /\ handled' = handled
            [] ev \in {"failed", "other"} ->
                 /\ task' = [task EXCEPT ![self] =
                        IF InRegistry(j)
                        THEN [t EXCEPT !.pc = "wf_patch",
                                       !.rec = pending_jobs[j].record_id,
                                       !.chat = pending_jobs[j].chat_id]
                        ELSE [t EXCEPT !.pc = "wf_lookup"]]
                 /\ handled' = IF ev = "other"
                                THEN [handled EXCEPT ![j] = @ \cup {ev}] ELSE handled
            [] OTHER ->
                 \* completed without media_url, or another event: logged, 200
                 /\ task' = task
                 /\ handled' = [handled EXCEPT ![j] = @ \cup {IF ev = "completed" THEN "completed_nourl" ELSE ev}]
    /\ UNCHANGED <<store, pending_jobs, vendor, notifs, broadcast, patches, sweep, gen, rehyd,
                   phase, sinceSubmit, beforeRestart, processed, discarded, sweptYoung, rhNoUuid, crashes, atRestart, cut, faults, call>>

\* the dispatch without the test of video_url: a completed event goes to
\* complete_video_generation whether it carries media_url or not
WebhookArriveNoUrlTest(self, j, ev) ==
    /\ task[self].pc = "idle"
    /\ deliveries < MaxDeliveries
    /\ deliveries' = deliveries + 1
    /\ CASE ev = "completed" -> vendor[j].st = "completed"
         [] ev = "failed" -> vendor[j].st = "failed"
         [] OTHER -> vendor[j].st \in {"running", "other"}
    /\ LET t == [Idle EXCEPT !.uuid = j, !.event = ev]
       IN CASE ev = "completed" ->
                 /\ task' = [task EXCEPT ![self] =
                                 CvgBegin(t, j, IF vendor[j].url THEN j ELSE NoVideo)]
                 /\ handled' = IF vendor[j].url THEN handled
                               ELSE [handled EXCEPT ![j] = @ \cup {"completed_nourl"}]
            [] ev = "failed" ->
                 /\ task' = [task EXCEPT ![self] =
                        IF InRegistry(j)
                        THEN [t EXCEPT !.pc = "wf_patch",
                                       !.rec = pending_jobs[j].record_id,
                                       !.chat = pending_jobs[j].chat_id]
                        ELSE [t EXCEPT !.pc = "wf_lookup"]]
                 /\ handled' = handled
            [] OTHER ->
                 /\ task' = task
                 /\ handled' = [handled EXCEPT ![j] = @ \cup {ev}]
    /\ UNCHANGED <<store, pending_jobs, vendor, notifs, broadcast, patches, sweep, gen, rehyd,
                   phase, sinceSubmit, beforeRestart, processed, discarded, sweptYoung, rhNoUuid, crashes, atRestart, cut, faults, call>>

\* A VIDEO_GENERATION_COMPLETED delivery whose data carries no uuid:
\* `if uuid and video_url` is false, the handler logs a warning and answers
\* 200 without having awaited anything.
WebhookNoUuid(self) ==
    /\ task[self].pc = "idle"
    /\ deliveries < MaxDeliveries
    /\ deliveries' = deliveries + 1
    /\ UNCHANGED <<store, pending_jobs, vendor, notifs, broadcast, patches, task, sweep, gen,
                   rehyd, phase, sinceSubmit, beforeRestart, ghosts, crashes, atRestart, cut,
                   faults, call>>

\* A delivery arrives and request.json() answers.  The vendor sends the
\* event that matches the job's state; a completed event carries media_url
\* when the vendor has one.
WebhookArrive(self, j, ev) ==
    /\ task[self].pc = "idle"
    /\ deliveries < MaxDeliveries
    /\ deliveries' = deliveries + 1
    /\ CASE ev = "completed" -> vendor[j].st = "completed"
         [] ev = "failed" -> vendor[j].st = "failed"
         [] OTHER -> vendor[j].st \in {"running", "other"}
    /\ LET t == [Idle EXCEPT !.uuid = j, !.event = ev]
       IN CASE ev = "completed" /\ vendor[j].url ->
                 /\ task' = [task EXCEPT ![self] = CvgBegin(t, j, j)]
                 /\ handled' = handled
            [] ev = "failed" ->
                 /\ task' = [task EXCEPT ![self] =
                        IF InRegistry(j)
                        THEN [t EXCEPT !.pc = "wf_patch",
                                       !.rec = pending_jobs[j].record_id,
                                       !.chat = pending_jobs[j].chat_id]
                        ELSE [t EXCEPT !.pc = "wf_lookup"]]
                 /\ handled' = handled
            [] OTHER ->
                 \* completed without media_url, or another event: logged, 200
                 /\ task' = task
                 /\ handled' = [handled EXCEPT ![j] = @ \cup {IF ev = "completed" THEN "completed_nourl" ELSE ev}]
    /\ UNCHANGED <<store, pending_jobs, vendor, notifs, broadcast, patches, sweep, gen, rehyd,
                   phase, sinceSubmit, beforeRestart, processed, discarded, sweptYoung, rhNoUuid, crashes, atRestart, cut, faults, call>>

\* failed event: get_record_by_uuid answers (job was not in memory)
WfLookup(self) ==
    /\ task[self].pc = "wf_lookup"
    /\ LET r == get_record_by_uuid(task[self].uuid)
       IN task' = [task EXCEPT ![self] =
                     IF r # 0 THEN [@ EXCEPT !.pc = "wf_patch", !.rec = r, !.chat = NoChat]
                     ELSE [@ EXCEPT !.pc = "wf_untracked"]]
    /\ UNCHANGED <<store, pending_jobs, vendor, notifs, broadcast, patches, sweep, gen, rehyd,
                   phase, sinceSubmit, beforeRestart, ghosts, deliveries, crashes, atRestart, cut, faults, call>>

\* failed event: update_record_status(job['record_id'], 'Error') lands
WfPatch(self) ==
    /\ task[self].pc = "wf_patch"
    /\ records' = update_record_status(records, task[self].rec, "Error", NoVideo, NoVideo)
    /\ patches' = LogPatch(patches, task[self].rec, "Error", "web", task[self].uuid \in processed,
                        FALSE)
    /\ task' = [task EXCEPT ![self].pc = "wf_notify"]
    /\ UNCHANGED <<post_queue, pending_jobs, vendor, notifs, broadcast, sweep, gen, rehyd,
                   phase, sinceSubmit, beforeRestart, ghosts, deliveries, crashes, atRestart, cut, faults, call>>

\* failed event: the failure message is sent, the job leaves pending_jobs
WfNotify(self) ==
    /\ task[self].pc = "wf_notify"
    /\ notifs' = Notify(notifs, task[self].rec, "failed", task[self].chat)
    /\ pending_jobs' = [pending_jobs EXCEPT ![task[self].uuid] = NoJob]
    /\ Resume(self, FALSE)
    /\ UNCHANGED <<store, vendor, broadcast, patches, gen, rehyd, phase, sinceSubmit, beforeRestart,
                   processed, discarded, sweptYoung, rhNoUuid, deliveries, crashes, atRestart, cut, faults, call>>

\* failed event for a job found nowhere: "untracked job" message to the
\* default chat
WfUntracked(self) ==
    /\ task[self].pc = "wf_untracked"
    /\ broadcast' = [NoBroadcast EXCEPT !.kind = "untracked"]
    /\ discarded' = discarded \cup {task[self].uuid}
    /\ Resume(self, FALSE)
    /\ UNCHANGED <<store, pending_jobs, vendor, notifs, patches, gen, rehyd, phase,
                   sinceSubmit, beforeRestart, processed, sweptYoung, rhNoUuid, deliveries, crashes, atRestart, cut, faults, call>>

Webhook(self) ==
    \/ \E j \in Jobs, ev \in {"completed", "failed", "other"} : WebhookArrive(self, j, ev)
    \/ WfLookup(self) \/ WfPatch(self) \/ WfNotify(self) \/ WfUntracked(self)

\* ------------------------------------------------------ cleanup_stale_jobs
\* a sweep task created at import time: its cycles do not wait for main to
\* have awaited recover_pending_jobs
SweepListAnytime ==
    /\ task[SweepId].pc = "idle"
    /\ get_records_by_status("Processing") # <<>>
    /\ LET sw == [SweepRest EXCEPT !.snap = get_records_by_status("Processing")]
       IN /\ task' = [task EXCEPT ![SweepId] = SweepLocal(sw)]
          /\ sweep' = SweepMove(sw)
    /\ UNCHANGED <<store, pending_jobs, vendor, notifs, broadcast, patches, gen, rehyd,
                   phase, sinceSubmit, beforeRestart, ghosts, deliveries, crashes, atRestart, cut, faults, call>>

\* asyncio.sleep is over and get_records_by_status('Processing') answers
SweepList ==
    /\ phase = "serving"
    /\ task[SweepId].pc = "idle"
    /\ get_records_by_status("Processing") # <<>>
    /\ LET sw == [SweepRest EXCEPT !.snap = get_records_by_status("Processing")]
       IN /\ task' = [task EXCEPT ![SweepId] = SweepLocal(sw)]
          /\ sweep' = SweepMove(sw)
    /\ UNCHANGED <<store, pending_jobs, vendor, notifs, broadcast, patches, gen, rehyd,
                   phase, sinceSubmit, beforeRestart, ghosts, deliveries, crashes, atRestart, cut, faults, call>>

Stale(r, uuid) ==
    /\ sinceSubmit[r] > STALE_THRESHOLD_MINUTES
    /\ records[r].status = "Processing"
    /\ vendor[uuid].st \notin {"completed", "failed"}

\* the timeout test with >= in place of >
TimedOutAtThreshold(uuid) ==
    /\ InRegistry(uuid)
    /\ pending_jobs[uuid].age >= STALE_THRESHOLD_MINUTES

\* job and job.get('started_at') and age_minutes > STALE_THRESHOLD_MINUTES,
\* age_minutes being now - started_at with the cycle's now
TimedOut(uuid) ==
    /\ InRegistry(uuid)
    /\ pending_jobs[uuid].age > STALE_THRESHOLD_MINUTES

\* the vendor reports the job as processing and the job is in pending_jobs,
\* not older than the threshold
Young(uuid) ==
    /\ vendor[uuid].st = "running"
    /\ InRegistry(uuid)
    /\ pending_jobs[uuid].age <= STALE_THRESHOLD_MINUTES

\* check_job_status answers for the current record
SweepCheck ==
    /\ task[SweepId].pc = "sw_check"
    /\ LET t == task[SweepId]
           info == check_job_status(t.uuid)
           err(kind) == [t EXCEPT !.pc = "sw_err_patch", !.event = kind]
       IN CASE info.status = 2 /\ info.media_url # NoVideo ->
                 /\ task' = [task EXCEPT ![SweepId] = CvgBegin(t, t.uuid, info.media_url)]
                 /\ UNCHANGED <<sweep, sweptYoung>>
            [] info.status = 2 /\ info.media_url = NoVideo ->
                 /\ task' = [task EXCEPT ![SweepId] = err("no_url")]
                 /\ UNCHANGED <<sweep, sweptYoung>>
            [] info.status = 3 ->
                 /\ task' = [task EXCEPT ![SweepId] = err("failed")]
                 /\ UNCHANGED <<sweep, sweptYoung>>
            [] info.status = 1 /\ TimedOut(t.uuid) ->
                 /\ task' = [task EXCEPT ![SweepId] = err("timeout")]
                 /\ UNCHANGED <<sweep, sweptYoung>>
            [] OTHER ->
                 \* still processing, or unknown status: logged only
                 /\ task' = [task EXCEPT ![SweepId] = SweepLocal(sweep)]
                 /\ sweep' = SweepMove(sweep)
                 /\ sweptYoung' = IF Young(t.uuid)
                                  THEN sweptYoung \cup {t.rec} ELSE sweptYoung
    /\ UNCHANGED <<store, pending_jobs, vendor, notifs, broadcast, patches, gen, rehyd,
                   phase, sinceSubmit, beforeRestart, processed, handled, discarded, rhNoUuid,
                   deliveries, crashes, atRestart, cut, faults, call>>

\* check_job_status raises for the current record (the status call fails):
\* the for loop has no try of its own, the exception reaches the except of
\* the cycle, which logs it; the task goes back to its sleep with the
\* records after this one not looked at and no summary sent
SweepCheckRaises ==
    /\ task[SweepId].pc = "sw_check"
    /\ faults < MaxFaults
    /\ faults' = faults + 1
    /\ task' = [task EXCEPT ![SweepId] = Idle]
    /\ sweep' = SweepRest
    /\ UNCHANGED <<store, pending_jobs, vendor, notifs, broadcast, patches, gen, rehyd,
                   phase, sinceSubmit, beforeRestart, ghosts, deliveries, crashes, atRestart, cut, call>>

\* one of the four Error branches (no uuid, completed without url, failed,
\* timed out): update_record_status(record_id, 'Error') lands
SweepErrPatch ==
    /\ task[SweepId].pc = "sw_err_patch"
    /\ records' = update_record_status(records, task[SweepId].rec, "Error", NoVideo, NoVideo)
    /\ patches' = LogPatch(patches, task[SweepId].rec, "Error", "sweep", FALSE, FALSE)
    /\ task' = [task EXCEPT ![SweepId].pc = "sw_err_notify"]
    /\ UNCHANGED <<post_queue, pending_jobs, vendor, notifs, broadcast, sweep, gen, rehyd,
                   phase, sinceSubmit, beforeRestart, ghosts, deliveries, crashes, atRestart, cut, faults, call>>

\* update_record_status(record_id, 'Error') fails: it returns False, the row
\* is as it was, and the branch goes on to its message
SweepErrPatchFails ==
    /\ task[SweepId].pc = "sw_err_patch"
    /\ faults < MaxFaults
    /\ faults' = faults + 1
    /\ task' = [task EXCEPT ![SweepId].pc = "sw_err_notify"]
    /\ UNCHANGED <<store, pending_jobs, vendor, notifs, broadcast, patches, sweep, gen, rehyd,
                   phase, sinceSubmit, beforeRestart, ghosts, deliveries, crashes, atRestart, cut, call>>

\* the branch's message goes to the default chat; the failed and the
\* timeout branch remove the job (the timeout branch with a bare del whose
\* KeyError its except: pass swallows, skipping the count), the other two
\* leave pending_jobs alone
SweepErrNotify ==
    /\ task[SweepId].pc = "sw_err_notify"
    /\ LET t == task[SweepId]
           sw == CASE t.event \in {"no_url", "failed"} -> [sweep EXCEPT !.failed = @ + 1]
                   [] t.event = "timeout" /\ ~InRegistry(t.uuid) -> sweep
                   [] OTHER -> [sweep EXCEPT !.timeout = @ + 1]
       IN /\ notifs' = Notify(notifs, t.rec, t.event, NoChat)
          /\ pending_jobs' = IF t.event \in {"failed", "timeout"}
                             THEN [pending_jobs EXCEPT ![t.uuid] = NoJob]
                             ELSE pending_jobs
          /\ task' = [task EXCEPT ![SweepId] = SweepLocal(sw)]
          /\ sweep' = SweepMove(sw)
    /\ UNCHANGED <<store, vendor, broadcast, patches, gen, rehyd, phase, sinceSubmit, beforeRestart,
                   ghosts, deliveries, crashes, atRestart, cut, faults, call>>

\* the cycle's summary message is sent; back to sleep
SweepSummary ==
    /\ task[SweepId].pc = "sw_summary"
    /\ broadcast' = [kind |-> "summary", completed |-> sweep.completed,
                      failed |-> sweep.failed, timeout |-> sweep.timeout]
    /\ task' = [task EXCEPT ![SweepId] = Idle]
    /\ sweep' = SweepRest
    /\ UNCHANGED <<store, pending_jobs, vendor, notifs, patches, gen, rehyd, phase,
                   sinceSubmit, beforeRestart, ghosts, deliveries, crashes, atRestart, cut, faults, call>>

Sweep == SweepList \/ SweepCheck \/ SweepErrPatch \/ SweepErrNotify \/ SweepSummary


\* ------------------------------------------------------- poll_and_complete
\* the task created by recover_pending_jobs starts: job = pending_jobs.get(uuid)
PollStart(self) ==
    /\ task[self].pc = "p_start"
    /\ LET t == task[self]
       IN task' = [task EXCEPT ![self] =
                     IF InRegistry(t.uuid)
                     THEN [t EXCEPT !.pc = "p_poll",
                                    !.rec = pending_jobs[t.uuid].record_id,
                                    !.chat = pending_jobs[t.uuid].chat_id]
                     ELSE Idle]
    /\ UNCHANGED <<store, pending_jobs, vendor, notifs, broadcast, patches, sweep, gen, rehyd,
                   phase, sinceSubmit, beforeRestart, ghosts, deliveries, crashes, atRestart, cut, faults, call>>

\* poll_for_completion ends: it returns the media url of a completed job,
\* or raises (failed, completed without url, or max_attempts polls used up
\* while the vendor still reports the job unfinished); the polls in between
\* change nothing.  In the except branch job['status'] = 'failed'.
PollResult(self) ==
    /\ task[self].pc = "p_poll"
    /\ LET t == task[self]
           j == t.uuid
       IN IF vendor[j].st = "completed" /\ vendor[j].url
          THEN /\ task' = [task EXCEPT ![self] = CvgBegin(t, j, j)]
               /\ pending_jobs' = pending_jobs
          ELSE /\ task' = [task EXCEPT ![self].pc = "p_patch"]
               /\ pending_jobs' = IF InRegistry(j)
                                  THEN [pending_jobs EXCEPT ![j].status = "failed"]
                                  ELSE pending_jobs
    /\ UNCHANGED <<store, vendor, notifs, broadcast, patches, sweep, gen, rehyd,
                   phase, sinceSubmit, beforeRestart, ghosts, deliveries, crashes, atRestart, cut, faults, call>>

\* except branch: update_record_status(job['record_id'], 'Error') lands
PollPatch(self) ==
    /\ task[self].pc = "p_patch"
    /\ records' = update_record_status(records, task[self].rec, "Error", NoVideo, NoVideo)
    /\ patches' = LogPatch(patches, task[self].rec, "Error", "poll", task[self].uuid \in processed,
                        FALSE)
    /\ task' = [task EXCEPT ![self].pc = "p_notify"]
    /\ UNCHANGED <<post_queue, pending_jobs, vendor, notifs, broadcast, sweep, gen, rehyd,
                   phase, sinceSubmit, beforeRestart, ghosts, deliveries, crashes, atRestart, cut, faults, call>>

\* except branch: the failure message is sent; del pending_jobs[uuid]
\* (a KeyError ends the task like a normal return)
PollNotify(self) ==
    /\ task[self].pc = "p_notify"
    /\ notifs' = Notify(notifs, task[self].rec, "failed", task[self].chat)
    /\ pending_jobs' = [pending_jobs EXCEPT ![task[self].uuid] = NoJob]
    /\ Resume(self, FALSE)
    /\ UNCHANGED <<store, vendor, broadcast, patches, gen, rehyd, phase, sinceSubmit, beforeRestart,
                   processed, discarded, sweptYoung, rhNoUuid, deliveries, crashes, atRestart, cut, faults, call>>

Poller(self) == PollStart(self) \/ PollResult(self) \/ PollPatch(self) \/ PollNotify(self)

\* ---------------------------------------------------- recover_pending_jobs
RhRest == [pc |-> "done", snap |-> <<>>, idx |-> 0]

\* recover_pending_jobs without its no-uuid branch: such records are passed
\* over and stay as they are
RECURSIVE RhRunSkip(_, _, _, _)
RhRunSkip(pj, spawned, snap, i) ==
    IF i > Len(snap)
    THEN [pj |-> pj, spawned |-> spawned, idx |-> i]
    ELSE IF snap[i].uuid = NoUuid
         THEN RhRunSkip(pj, spawned, snap, i + 1)
         ELSE RhRunSkip([pj EXCEPT ![snap[i].uuid] =
                            [record_id |-> snap[i].id, status |-> "recovering",
                             chat_id |-> NoChat, age |-> 0]],
                        spawned \cup {snap[i].uuid}, snap, i + 1)

\* recover_pending_jobs registering the jobs the way a submission does:
\* 'generating', with the user's chat id
RECURSIVE RhRunAsSubmitted(_, _, _, _)
RhRunAsSubmitted(pj, spawned, snap, i) ==
    IF i > Len(snap) \/ snap[i].uuid = NoUuid
    THEN [pj |-> pj, spawned |-> spawned, idx |-> i]
    ELSE RhRunAsSubmitted([pj EXCEPT ![snap[i].uuid] =
                               [record_id |-> snap[i].id, status |-> "generating",
                                chat_id |-> UserChat, age |-> 0]],
                          spawned \cup {snap[i].uuid}, snap, i + 1)

\* the for loop from record i up to its next await: records with a uuid are
\* put into pending_jobs ('recovering', no chat id, started_at = now) and a
\* poller task is created for each; the loop stops at a record without uuid
RECURSIVE RhRun(_, _, _, _)
RhRun(pj, spawned, snap, i) ==
    IF i > Len(snap) \/ snap[i].uuid = NoUuid
    THEN [pj |-> pj, spawned |-> spawned, idx |-> i]
    ELSE RhRun([pj EXCEPT ![snap[i].uuid] =
                    [record_id |-> snap[i].id, status |-> "recovering",
                     chat_id |-> NoChat, age |-> 0]],
               spawned \cup {snap[i].uuid}, snap, i + 1)

RhContinue(snap, i) ==
    LET run == RhRun(pending_jobs, {}, snap, i)
    IN /\ pending_jobs' = run.pj
       /\ task' = [t \in TaskIds |->
                     IF t[1] = "poll" /\ t[2] \in run.spawned
                     THEN [Idle EXCEPT !.pc = "p_start", !.uuid = t[2]]
                     ELSE task[t]]
       /\ rehyd' = [pc |-> IF run.idx > Len(snap) THEN "rh_notify" ELSE "rh_nouuid",
                    snap |-> snap, idx |-> run.idx]

\* get_records_by_status('Processing') answers
RhList ==
    /\ rehyd.pc = "rh_list"
    /\ LET snap == get_records_by_status("Processing")
       IN /\ rhNoUuid' = rhNoUuid \cup {snap[i].id : i \in {k \in 1..Len(snap) : snap[k].uuid = NoUuid}}
          /\ IF snap = <<>>
             THEN /\ rehyd' = RhRest
                  /\ phase' = "serving"
                  /\ UNCHANGED <<pending_jobs, task>>
             ELSE /\ RhContinue(snap, 1)
                  /\ phase' = phase
    /\ UNCHANGED <<store, vendor, notifs, broadcast, patches, sweep, gen, sinceSubmit, beforeRestart,
                   processed, handled, discarded, sweptYoung, deliveries, crashes, atRestart, cut, faults, call>>

\* record without uuid: update_record_status(record['id'], 'Error') lands
RhNoUuid ==
    /\ rehyd.pc = "rh_nouuid"
    /\ records' = update_record_status(records, rehyd.snap[rehyd.idx].id, "Error", NoVideo, NoVideo)
    /\ patches' = LogPatch(patches, rehyd.snap[rehyd.idx].id, "Error", "rehyd", FALSE, FALSE)
    /\ RhContinue(rehyd.snap, rehyd.idx + 1)
    /\ UNCHANGED <<post_queue, vendor, notifs, broadcast, sweep, gen, phase, sinceSubmit, beforeRestart,
                   ghosts, deliveries, crashes, atRestart, cut, faults, call>>

\* the "Bot Restarted" message is sent; main goes on to start the sweep
\* task and the Telegram polling
RhNotify ==
    /\ rehyd.pc = "rh_notify"
    /\ broadcast' = [NoBroadcast EXCEPT !.kind = "restart"]
    /\ rehyd' = RhRest
    /\ phase' = "serving"
    /\ UNCHANGED <<store, pending_jobs, vendor, notifs, patches, task, sweep, gen,
                   sinceSubmit, beforeRestart, ghosts, deliveries, crashes, atRestart, cut, faults, call>>

Rehydrate == RhList \/ RhNoUuid \/ RhNotify

\* Some task is in the middle of a path that works on record r.
BusyRec(r) ==
    \/ \E t \in TaskIds : /\ task[t].pc # "idle"
                          /\ \/ task[t].rec = r
                             \/ task[t].uuid # NoUuid /\ task[t].uuid = records[r].uuid
    \/ gen.pc # "idle" /\ gen.snap[gen.idx] = r
    \/ rehyd.pc # "done"

\* ------------------------------------------------------------------ restart
\* The process dies and is started again: memory (pending_jobs, every task)
\* is gone, Baserow and the vendor keep their state, main runs from the top.
Crash ==
    /\ crashes < MaxCrashes
    /\ crashes' = crashes + 1
    /\ pending_jobs' = [j \in Jobs |-> NoJob]
    /\ task' = [t \in TaskIds |-> Idle]
    /\ sweep' = SweepRest
    /\ gen' = [pc |-> "idle", snap |-> <<>>, idx |-> 0, uuid |-> NoUuid]
    /\ rehyd' = [pc |-> "rh_list", snap |-> <<>>, idx |-> 0]
    /\ phase' = "recovering"
    /\ beforeRestart' = [j \in Jobs |->
            IF InRegistry(j) /\ OnProcessingRow(j) THEN SinceStarted(j) ELSE beforeRestart[j]]
    /\ handled' = [j \in Jobs |-> {}]
    /\ atRestart' = {records[r].uuid : r \in {q \in Records :
                         records[q].status = "Processing" /\ records[q].uuid # NoUuid}}
    /\ cut' = cut \cup {r \in Records : records[r].status \in Terminal /\ BusyRec(r)}
    /\ UNCHANGED <<store, vendor, notifs, broadcast, patches, sinceSubmit, processed,
                   discarded, sweptYoung, rhNoUuid, deliveries, faults, call>>

\* --------------------------------------------------------------------- Next
Next ==
    \/ Generate
    \/ \E j \in Jobs : VendorStep(j)
    \/ Tick
    \/ \E w \in WebIds : Webhook(w)
    \/ \E t \in TaskIds : CvgLookup(t) \/ CvgPatch(t) \/ CvgNotify(t)
    \/ Sweep
    \/ \E p \in PollIds : Poller(p)
    \/ Rehydrate
    \/ Crash

Spec == Init /\ [][Next]_vars

\* The sweep task, once started, keeps running: its sleep ends, and the
\* calls it awaits answer.
SweepRuns ==
    \/ Sweep
    \/ CvgLookup(SweepId) \/ CvgPatch(SweepId) \/ CvgNotify(SweepId)

FairSpec == Spec /\ WF_vars(Rehydrate) /\ WF_vars(SweepRuns) /\ WF_vars(Tick)

\* A handler that has started goes on: the calls it awaits answer.  The
\* arrival of a command or of a webhook is no part of it.
HandlersRun ==
    \/ GenPatch \/ GenSubmit \/ GenSave \/ GenStarted \/ GenErrPatch \/ GenErrNotify
    \/ \E w \in WebIds :
          \/ CvgLookup(w) \/ CvgPatch(w) \/ CvgNotify(w)
          \/ WfLookup(w) \/ WfPatch(w) \/ WfNotify(w) \/ WfUntracked(w)
    \/ \E p \in PollIds :
          Poller(p) \/ CvgLookup(p) \/ CvgPatch(p) \/ CvgNotify(p)

\* Every task of the event loop keeps running, and every sweep cycle starts
\* with asyncio.sleep(CHECK_INTERVAL_SECONDS): the clock moves between two
\* cycles, however often the sweep runs.
SleepFairSpec == FairSpec /\ WF_vars(HandlersRun) /\ SF_vars(Tick)

\* Two submissions side by side in one process lifetime: both records are
\* flagged ready, the process is not restarted.
InitPair == InitWith(NumRecords) /\ call = NoCall

NextPair ==
    \/ Generate
    \/ \E j \in Jobs : VendorStep(j)
    \/ \E w \in WebIds : Webhook(w)
    \/ \E t \in WebIds \cup {SweepId} : CvgLookup(t) \/ CvgPatch(t) \/ CvgNotify(t)
    \/ Sweep
    \/ RhList

PairSpec == InitPair /\ [][NextPair]_vars

\* One process lifetime in which Baserow calls can fail (an answer other
\* than 200/201, or none): update_record_status and save_generation_uuid
\* then return False, upload_video_to_baserow returns None.
NextFault ==
    \/ Generate \/ GenPatchFails \/ GenSaveFails
    \/ \E j \in Jobs : VendorStep(j)
    \/ Tick
    \/ \E w \in WebIds : Webhook(w)
    \/ \E t \in WebIds \cup {SweepId} :
          CvgLookup(t) \/ CvgPatch(t) \/ CvgUploadFails(t) \/ CvgPatchFails(t) \/ CvgNotify(t)
    \/ Sweep \/ SweepErrPatchFails
    \/ RhList

FaultSpec == Init /\ [][NextFault]_vars

\* The program with deliveries among the webhooks that name no job.
NextDelivery == Next \/ \E w \in WebIds : WebhookNoUuid(w)

DeliverySpec == Init /\ [][NextDelivery]_vars

\* Two submissions side by side in one process lifetime in which a vendor
\* status call of the sweep can fail.
NextStatusFault == NextPair \/ SweepCheckRaises

StatusFaultSpec == InitPair /\ [][NextStatusFault]_vars


\* ============================================ one baserow_client call
\* What Baserow answers to one request: the three status classes the
\* functions tell apart, or no answer at all (aiohttp raises).
Answers == {"200", "401", "500", "none"}

\* `for attempt in range(2)`
RetryRange == 2

\* the functions whose request sits in a `for attempt in range(2)` loop
\* that clears the token cache and continues on a 401 of the first attempt
Retrying == {"get_record_by_uuid", "get_records_by_status", "save_generation_uuid",
             "get_ready_records", "update_record_status"}

\* the functions that send their request once, outside any loop
SingleShot == {"get_page_name", "upload_video_to_baserow"}

Callers == Retrying \cup SingleShot \cup {"create_post_queue_record"}

\* the functions that send another request before the one to their own endpoint
HasEarlierRequest == {"upload_video_to_baserow", "create_post_queue_record"}

\* A call as it starts.  resp: the answers Baserow gives to the requests
\* of the function's own endpoint, in order; pre: the answer to the
\* request a function makes before that (the download of the video in
\* upload_video_to_baserow, the listing of scheduled posts in
\* create_post_queue_record); cached: whether a token is cached and not
\* expired; loginOk: whether token-auth answers 200.  update_record_status
\* is followed as called without video_url; the upload it makes when given
\* one is the call upload_video_to_baserow.
AllStartCalls ==
    {[fn |-> f, resp |-> <<a1, a2>>, pre |-> p, cached |-> c, loginOk |-> l,
      attempt |-> 0, seen |-> <<>>, cleared |-> 0, logins |-> 0,
      pc |-> IF f = "upload_video_to_baserow" THEN "download"
             ELSE IF f = "create_post_queue_record" THEN "list_token" ELSE "token",
      ok |-> FALSE] :
        f \in Callers, a1 \in Answers, a2 \in Answers,
        p \in Answers, c \in BOOLEAN, l \in BOOLEAN}

\* only those two functions have an earlier request to be answered
StartCalls == {c \in AllStartCalls : c.fn \notin HasEarlierRequest => c.pre = "200"}

CallRest == <<records, post_queue, pending_jobs, vendor, notifs, broadcast, patches,
              task, sweep, gen, rehyd, phase, sinceSubmit, beforeRestart, ghosts,
              deliveries, crashes, atRestart, cut, faults>>

\* the function returns its failure value (None, [], False, 'Unknown')
CallFails == call' = [call EXCEPT !.pc = "done", !.ok = FALSE]

\* upload_video_to_baserow fetches the video from video_url first and
\* returns None unless the answer is 200.
CallDownload ==
    /\ call.pc = "download"
    /\ IF call.pre = "200" THEN call' = [call EXCEPT !.pc = "token"] ELSE CallFails
    /\ UNCHANGED CallRest

\* get_baserow_token: the cached token if there is one, otherwise a
\* token-auth request; an answer other than 200 raises, and every caller
\* catches that in the try around its request.  create_post_queue_record
\* goes on to get_next_available_slot after the except of its listing.
clear_token_cache(c) == [c EXCEPT !.cached = FALSE, !.cleared = @ + 1]

get_baserow_token ==
    /\ call.pc \in {"token", "list_token"}
    /\ IF call.cached
         THEN call' = [call EXCEPT !.pc = IF call.pc = "token" THEN "request" ELSE "list"]
         ELSE IF call.loginOk
              THEN call' = [call EXCEPT !.cached = TRUE, !.logins = @ + 1,
                                        !.pc = IF call.pc = "token" THEN "request" ELSE "list"]
              ELSE IF call.pc = "list_token" /\ get_next_available_slot # "NameError"
                   THEN call' = [call EXCEPT !.logins = @ + 1, !.pc = "token"]
                   ELSE call' = [call EXCEPT !.logins = @ + 1, !.pc = "done", !.ok = FALSE]
    /\ UNCHANGED CallRest

\* create_post_queue_record lists the scheduled posts with one GET: its
\* answer is only read when it is 200, nothing is retried.  Then
\* get_next_available_slot runs, and its NameError leaves the function
\* before the POST.
CallList ==
    /\ call.pc = "list"
    /\ call' = [call EXCEPT !.seen = Append(@, call.pre),
                            !.pc = IF get_next_available_slot = "NameError"
                                   THEN "done" ELSE "token"]
    /\ UNCHANGED CallRest

\* The request of the function's own endpoint, and what the function does
\* with the answer.
CallRequest ==
    /\ call.pc = "request"
    /\ call.attempt < RetryRange
    /\ LET a == call.resp[call.attempt + 1]
           sent == [call EXCEPT !.seen = Append(@, a)]
       IN  IF a = "200"
           THEN call' = [sent EXCEPT !.pc = "done", !.ok = TRUE]
           ELSE IF a = "401" /\ call.attempt = 0 /\ call.fn \notin SingleShot
                THEN call' = [clear_token_cache(sent) EXCEPT !.attempt = 1, !.pc = "token"]
                ELSE call' = [sent EXCEPT !.pc = "done", !.ok = FALSE]
    /\ UNCHANGED CallRest

InitCall == InitWith(NumReady) /\ call \in StartCalls

NextCall == CallDownload \/ get_baserow_token \/ CallList \/ CallRequest

\* one call of one baserow_client function, from its first line to its return
CallSpec == InitCall /\ [][NextCall]_vars


\* ======================================= one call of send_telegram_message
\* chat ids a message can be addressed to; NoChat stands for an empty entry
\* of the list (`if not chat_id: continue`)
MaxChats == 2
ChatIds == 1..MaxChats

\* what the Bot API does with one sendMessage: 200, another status, or no
\* answer (the POST raises)
Deliveries == {"200", "400", "none"}

\* A call as it starts: the list of chat ids, what happens to the POST for
\* each position of the list, and whether TELEGRAM_BOT_TOKEN is configured.
StartSends ==
    UNION {{[fn |-> "send_telegram_message", ids |-> i, outcome |-> o, token |-> t,
             idx |-> 1, attempted |-> <<>>, delivered |-> <<>>, logged |-> 0,
             pc |-> "start", raised |-> FALSE] :
                i \in [1..n -> ChatIds \cup {NoChat}],
                o \in [1..n -> Deliveries],
                t \in BOOLEAN} : n \in 1..MaxChats}

\* `if not TELEGRAM_BOT_TOKEN: return`, else the loop is entered
SendStart ==
    /\ call.fn = "send_telegram_message"
    /\ call.pc = "start"
    /\ call' = [call EXCEPT !.pc = IF call.token THEN "loop" ELSE "done"]
    /\ UNCHANGED CallRest

\* a delivery failure that leaves the function instead of being logged
SendDeliverRaises ==
    /\ call.fn = "send_telegram_message"
    /\ call.pc = "loop"
    /\ call.idx <= Len(call.ids)
    /\ LET c == call.ids[call.idx]
           o == call.outcome[call.idx]
       IN  IF c = NoChat
           THEN call' = [call EXCEPT !.idx = @ + 1]
           ELSE IF o = "200"
                THEN call' = [call EXCEPT !.idx = @ + 1, !.attempted = Append(@, c),
                                          !.delivered = Append(@, c)]
                ELSE call' = [call EXCEPT !.attempted = Append(@, c),
                                          !.pc = "done", !.raised = TRUE]
    /\ UNCHANGED CallRest

\* One turn of `for chat_id in chat_ids`: an empty id is skipped; the POST
\* is sent inside a try; a status other than 200 is logged, an exception is
\* caught by `except Exception` and logged, and the loop goes on.
SendDeliver ==
    /\ call.fn = "send_telegram_message"
    /\ call.pc = "loop"
    /\ call.idx <= Len(call.ids)
    /\ LET c == call.ids[call.idx]
           o == call.outcome[call.idx]
       IN  IF c = NoChat
           THEN call' = [call EXCEPT !.idx = @ + 1]
           ELSE IF o = "200"
                THEN call' = [call EXCEPT !.idx = @ + 1, !.attempted = Append(@, c),
                                          !.delivered = Append(@, c)]
                ELSE call' = [call EXCEPT !.idx = @ + 1, !.attempted = Append(@, c),
                                          !.logged = @ + 1]
    /\ UNCHANGED CallRest

\* the list is exhausted: the session closes and the function returns None
SendReturn ==
    /\ call.fn = "send_telegram_message"
    /\ call.pc = "loop"
    /\ call.idx > Len(call.ids)
    /\ call' = [call EXCEPT !.pc = "done"]
    /\ UNCHANGED CallRest

InitSend == InitWith(NumReady) /\ call \in StartSends

NextSend == SendStart \/ SendDeliver \/ SendReturn

SendSpec == InitSend /\ [][NextSend]_vars


\* ============================================ one call of get_ready_records
\* rows of the Reels Generation table, and the `size` of the one page the
\* function asks for (200 in the source, scaled to the table of the model)
TableRows == 3
PageSize == 2

Statuses == {"Draft", "Processing", "Completed", "Error"}

\* A row as the function reads it: Ready To Generate and Status (each a
\* plain value or a dict whose 'value' is read, which comes to the same),
\* whether Prompt is filled and whether Target Page has an entry.
Rows == [ready : BOOLEAN, status : Statuses, prompt : BOOLEAN, target : BOOLEAN]

NoStats == [total |-> 0, not_ready |-> 0, not_draft |-> 0, no_prompt |-> 0,
            no_target |-> 0, ready |-> 0]

\* A call as it starts: the table, and whether the GET is answered 200.
StartReady ==
    {[fn |-> "get_ready_records", table |-> t, answer |-> a, page |-> <<>>,
      pc |-> "request", result |-> <<>>, stats |-> NoStats] :
        t \in [1..TableRows -> Rows], a \in {"200", "500"}}

\* the GET with params size: the first page of the table, or on any other
\* answer `return [], stats`
ReadyRequest ==
    /\ call.fn = "get_ready_records"
    /\ call.pc = "request"
    /\ call' = IF call.answer = "200"
               THEN [call EXCEPT !.pc = "filter",
                                 !.page = [i \in 1..(IF TableRows < PageSize THEN TableRows
                                                     ELSE PageSize) |-> i]]
               ELSE [call EXCEPT !.pc = "done"]
    /\ UNCHANGED CallRest

\* ready_to_gen and status == 'Draft' and has_prompt and has_target
IsReady(row) == row.ready /\ row.status = "Draft" /\ row.prompt /\ row.target

\* the rows of ids, in order, that pass test
RECURSIVE Keep(_, _)
Keep(ids, pass) ==
    IF ids = <<>> THEN <<>>
    ELSE IF pass[Head(ids)] THEN <<Head(ids)>> \o Keep(Tail(ids), pass)
         ELSE Keep(Tail(ids), pass)

Count(ids, S) == Cardinality({i \in 1..Len(ids) : ids[i] \in S})

\* the loop over data['results']: counters and ready_records
ReadyFilter ==
    /\ call.fn = "get_ready_records"
    /\ call.pc = "filter"
    /\ LET t == call.table
           kept == Keep(call.page, [i \in 1..TableRows |-> IsReady(t[i])])
       IN call' = [call EXCEPT
              !.pc = "done",
              !.result = kept,
              !.stats = [total |-> Len(call.page),
                         not_ready |-> Count(call.page, {i \in 1..TableRows : ~t[i].ready}),
                         not_draft |-> Count(call.page, {i \in 1..TableRows : t[i].status # "Draft"}),
                         no_prompt |-> Count(call.page, {i \in 1..TableRows : ~t[i].prompt}),
                         no_target |-> Count(call.page, {i \in 1..TableRows : ~t[i].target}),
                         ready |-> Len(kept)]]
    /\ UNCHANGED CallRest

InitReady == InitWith(NumReady) /\ call \in StartReady

NextReady == ReadyRequest \/ ReadyFilter

ReadySpec == InitReady /\ [][NextReady]_vars


\* ========================================= one call of poll_for_completion
\* the parameter max_attempts (30 by default)
max_attempts == 3

\* What one GET of /history/{uuid} brings: a status other than 200, an
\* aiohttp.ClientError, a body that is no JSON (resp.json() raises a
\* ValueError), or a JSON body with status 1, 2, 3 or something else; a
\* completed body carries media_url, or a generated_video entry with or
\* without a url, or neither.
PollAnswers == {"non200", "client_error", "bad_body", "processing", "unknown",
                "completed_media_url", "completed_generated_url",
                "completed_generated_no_url", "completed_nothing", "failed"}

\* the answers after which the loop goes on to its next attempt
PollGoesOn == {"non200", "client_error", "processing", "unknown"}

\* A call as it starts: whether SORA_API_KEY is configured, and what the
\* vendor answers to each request in turn.
StartPolls ==
    {[fn |-> "poll_for_completion", key |-> k, resp |-> r, attempt |-> 1,
      requests |-> 0, pc |-> "start", result |-> "none"] :
        k \in BOOLEAN, r \in [1..max_attempts -> PollAnswers]}

\* `if not SORA_API_KEY: raise`, else the loop is entered
PollBegin ==
    /\ call.fn = "poll_for_completion"
    /\ call.pc = "start"
    /\ call' = IF call.key THEN [call EXCEPT !.pc = "loop"]
               ELSE [call EXCEPT !.pc = "done", !.result = "raised_no_key"]
    /\ UNCHANGED CallRest

\* how the function leaves the loop on answer a
PollLeaves(c, a) ==
    [c EXCEPT !.pc = "done",
              !.result = CASE a \in {"completed_media_url", "completed_generated_url"} -> "url"
                           [] a = "completed_generated_no_url" -> "returned_none"
                           [] a = "completed_nothing" -> "raised_no_url"
                           [] a = "failed" -> "raised_failed"
                           [] OTHER -> "raised_other"]

\* a loop in which an attempt that got no usable answer is tried again
\* without being counted
PollAttemptNotCounted ==
    /\ call.fn = "poll_for_completion"
    /\ call.pc = "loop"
    /\ call.attempt <= max_attempts
    /\ call.requests <= max_attempts
    /\ LET a == call.resp[call.attempt]
           sent == [call EXCEPT !.requests = @ + 1]
       IN  IF a \in {"non200", "client_error"} THEN call' = sent
           ELSE IF a \in PollGoesOn THEN call' = [sent EXCEPT !.attempt = @ + 1]
           ELSE call' = PollLeaves(sent, a)
    /\ UNCHANGED CallRest

\* One turn of `for attempt in range(1, max_attempts + 1)`: the sleep, the
\* GET, and what the body of the loop does with the answer.
PollAttempt ==
    /\ call.fn = "poll_for_completion"
    /\ call.pc = "loop"
    /\ call.attempt <= max_attempts
    /\ LET a == call.resp[call.attempt]
           sent == [call EXCEPT !.requests = @ + 1]
       IN  IF a \in PollGoesOn THEN call' = [sent EXCEPT !.attempt = @ + 1]
           ELSE call' = PollLeaves(sent, a)
    /\ UNCHANGED CallRest

\* the loop is exhausted: raise Exception("Timed out after ... minutes")
PollTimesOut ==
    /\ call.fn = "poll_for_completion"
    /\ call.pc = "loop"
    /\ call.attempt > max_attempts
    /\ call' = [call EXCEPT !.pc = "done", !.result = "raised_timeout"]
    /\ UNCHANGED CallRest

InitPoll == InitWith(NumReady) /\ call \in StartPolls

NextPoll == PollBegin \/ PollAttempt \/ PollTimesOut

\* the sleeps end and the requests are answered
PollSpec == InitPoll /\ [][NextPoll]_vars /\ WF_vars(NextPoll)

\* ---- get_next_available_slot, given the clock and the scheduled slots ----

\* CAMBODIA_TZ = timezone(timedelta(hours=7)), in hours
CambodiaOffset == 7

\* POSTING_TIMES = [8, 21]
POSTING_TIMES == <<8, 21>>

DayHours == 24

\* stands for the 30 of `for day_offset in range(30)`
DaysAhead == 2

\* the most rows the listing of Scheduled posts returns
MaxScheduled == 2

PostingHours == {POSTING_TIMES[i] : i \in 1..Len(POSTING_TIMES)}

\* A datetime is the hours on its own wall clock, counted from midnight of
\* day 0, and its utc offset in hours; Instant is the point in time it names.
Instant(t) == t.wall - t.off

\* what datetime.fromisoformat(schedule_for.replace('Z', '+00:00')) can
\* yield: posting instants written with the offset of Cambodia or as utc
\* ('Z'), and utc times whose digits are a posting hour
ScheduledTimes ==
    [wall : {d * DayHours + h : d \in 0..DaysAhead,
                                h \in PostingHours \cup {p - CambodiaOffset : p \in PostingHours}},
     off : {0, CambodiaOffset}]

\* the two copies of the function: helpers.py imports datetime and timedelta
\* only, sora-telegram-bot.py imports timezone as well
SlotModules == {"sora_bot/helpers.py", "sora-telegram-bot.py"}

NoSlot == [raised |-> FALSE, wall |-> 0, off |-> 0]

StartSlots ==
    {[fn |-> "get_next_available_slot", module |-> m, now_utc |-> n,
      scheduled_slots |-> S, pc |-> "start", returned |-> FALSE, result |-> NoSlot] :
        m \in SlotModules, n \in 0..(DayHours - 1),
        S \in {{}} \cup {{f[i] : i \in 1..MaxScheduled} :
                              f \in [1..MaxScheduled -> ScheduledTimes]}}

\* current_day.replace(hour=hour) of the n-th pass of the two loops, n from 0
SlotTime(now_cambodia, n) ==
    ((now_cambodia \div DayHours) + (n \div Len(POSTING_TIMES))) * DayHours
        + POSTING_TIMES[(n % Len(POSTING_TIMES)) + 1]

\* scheduled.replace(..., tzinfo=None) == slot_naive.replace(...): the digits
\* of the two wall clocks, whatever their offsets
is_taken(slot_time, scheduled_slots) ==
    \E scheduled \in scheduled_slots : scheduled.wall = slot_time

\* the body of the function from now_cambodia on: the first slot of the loops
\* that is neither past nor taken, else tomorrow at POSTING_TIMES[0]
SlotSearch(now_utc, scheduled_slots) ==
    LET now_cambodia == now_utc + CambodiaOffset
        Passes == 0..(DaysAhead * Len(POSTING_TIMES) - 1)
        Found(n) == /\ SlotTime(now_cambodia, n) > now_cambodia
                    /\ ~is_taken(SlotTime(now_cambodia, n), scheduled_slots)
    IN IF \E n \in Passes : Found(n)
       THEN LET n == CHOOSE k \in Passes : Found(k) /\ \A m \in Passes : m < k => ~Found(m)
            IN [raised |-> FALSE, wall |-> SlotTime(now_cambodia, n), off |-> CambodiaOffset]
       ELSE [raised |-> FALSE,
             wall |-> ((now_cambodia \div DayHours) + 1) * DayHours + POSTING_TIMES[1],
             off |-> CambodiaOffset]

\* one call: datetime.now(timezone.utc) raises NameError where timezone is
\* not imported, else the search runs
SlotCall ==
    /\ call.fn = "get_next_available_slot"
    /\ call.pc = "start"
    /\ call' = [call EXCEPT
           !.pc = "done",
           !.returned = (call.module # "sora_bot/helpers.py"),
           !.result = IF call.module = "sora_bot/helpers.py"
                      THEN [NoSlot EXCEPT !.raised = TRUE]
                      ELSE SlotSearch(call.now_utc, call.scheduled_slots)]
    /\ UNCHANGED CallRest

InitSlot == InitWith(NumReady) /\ call \in StartSlots

NextSlot == SlotCall

SlotSpec == InitSlot /\ [][NextSlot]_vars

\* ---- poll_telegram_updates: the long-poll loop and its offset ----

\* the updates Telegram holds during one run of the loop, update_id 1, 2, ...
MaxUpdates == 3

\* the getUpdates requests of one run
MaxRequests == 4

UpdateIds == 1..MaxUpdates

\* The loop at its start: offset = 0. updates[u] tells whether update u has
\* a message with a chat id; received[u] counts the answers that carried
\* update u, dispatched[u] the calls of handle_telegram_message for it;
\* consumed holds the updates whose pass of the for loop has begun.
StartLoop ==
    [fn |-> "poll_telegram_updates", pc |-> "get", offset |-> 0,
     updates |-> <<>>, batch |-> <<>>, idx |-> 1,
     received |-> [u \in UpdateIds |-> 0], dispatched |-> [u \in UpdateIds |-> 0],
     consumed |-> {}, requests |-> 0, raised |-> 0]

\* a message reaches the bot's queue at Telegram, with or without a chat id
TgArrive ==
    /\ call.fn = "poll_telegram_updates"
    /\ Len(call.updates) < MaxUpdates
    /\ \E chat \in BOOLEAN : call' = [call EXCEPT !.updates = Append(@, chat)]
    /\ UNCHANGED CallRest

\* offset = update['update_id'] + 1, the first statement of a pass
ConsumeKeepsOffset(c, u) == [c EXCEPT !.consumed = @ \cup {u}]

Consume(c, u) == [c EXCEPT !.offset = u + 1, !.consumed = @ \cup {u}]

\* the for loop from position i up to its next await: updates whose chat_id
\* is '' are passed over (continue), the first other one is handed to
\* handle_telegram_message; at the end of the batch the while loop goes round
RECURSIVE Walk(_, _)
Walk(c, i) ==
    IF i > Len(c.batch) THEN [c EXCEPT !.pc = "get", !.idx = i]
    ELSE LET u == c.batch[i]
             d == Consume(c, u)
         IN IF ~c.updates[u] THEN Walk(d, i + 1)
            ELSE [d EXCEPT !.pc = "handler", !.idx = i, !.dispatched[u] = @ + 1]

\* session.get(url, params={'offset': offset, 'timeout': 30}): an answer
\* other than 200 (sleep, continue), a failed request or body (except:
\* sleep), or the updates from offset on that Telegram returns, oldest first
TgGet ==
    /\ call.fn = "poll_telegram_updates"
    /\ call.pc = "get"
    /\ call.requests < MaxRequests
    /\ \/ call' = [call EXCEPT !.requests = @ + 1]
       \/ call' = [call EXCEPT !.requests = @ + 1, !.raised = @ + 1]
       \/ \E last \in 0..Len(call.updates) :
             LET first == IF call.offset < 1 THEN 1 ELSE call.offset
                 ids == IF last < first THEN <<>>
                        ELSE [i \in 1..(last - first + 1) |-> first + i - 1]
                 got == [call EXCEPT
                            !.requests = @ + 1,
                            !.batch = ids,
                            !.received = [u \in UpdateIds |->
                                             IF u >= first /\ u <= last THEN @[u] + 1 ELSE @[u]]]
             IN call' = Walk(got, 1)
    /\ UNCHANGED CallRest

\* handle_telegram_message returns: the for loop goes on with the next update
TgHandlerReturns ==
    /\ call.fn = "poll_telegram_updates"
    /\ call.pc = "handler"
    /\ call' = Walk(call, call.idx + 1)
    /\ UNCHANGED CallRest

\* handle_telegram_message raises: except Exception leaves the for loop,
\* logs, sleeps and the while loop goes round with the offset as it stands
TgHandlerRaises ==
    /\ call.fn = "poll_telegram_updates"
    /\ call.pc = "handler"
    /\ call' = [call EXCEPT !.pc = "get", !.raised = @ + 1]
    /\ UNCHANGED CallRest

InitTelegram == InitWith(NumReady) /\ call = StartLoop

NextTelegram == TgArrive \/ TgGet \/ TgHandlerReturns \/ TgHandlerRaises

TelegramSpec == InitTelegram /\ [][NextTelegram]_vars


\* ================================================================== claims
PatchesBy(r, who, st) ==
    {i \in 1..Len(patches[r]) : patches[r][i].by = who /\ patches[r][i].st = st}

\* C1: a VIDEO_GENERATION_COMPLETED delivery that arrives after
\* complete_video_generation has fully processed the job mutates nothing:
\* no Completed patch is ever applied by such a late delivery.
C1_SecondDeliveryIsNoOp ==
    \A r \in Records : \A i \in PatchesBy(r, "web", "Completed") : ~patches[r][i].late

\* C2: when a completed webhook and a sweep cycle reconcile the same job
\* with their awaits interleaved (both entered complete_video_generation
\* before any run of it for that job had finished), only one of the two
\* patches the record.
C2_RaceHasOneWinner ==
    \A r \in Records :
        ~ /\ \E i \in PatchesBy(r, "web", "Completed") : ~patches[r][i].late
          /\ \E i \in PatchesBy(r, "sweep", "Completed") : ~patches[r][i].late

\* C3: a record that is Completed or Error keeps that status, and a job
\* whose record is terminal is never put (back) into pending_jobs.
C3_OneTerminalState ==
    [][ /\ \A r \in Records :
              records[r].status \in Terminal => records'[r].status = records[r].status
        /\ \A r \in Records :
              (records[r].status \in Terminal /\ records[r].uuid # NoUuid
                  /\ ~InRegistry(records[r].uuid))
              => pending_jobs'[records[r].uuid] = NoJob ]_vars

\* C4: once one of the paths that drive a job to a terminal outcome (webhook
\* completed or failed, sweep completed, completed without url, failed or
\* timed out, recovery poller failure) has finished, the job id is not a key
\* of pending_jobs.
JobPathKinds == {"success", "degraded", "failed", "no_url", "timeout"}

C4_TerminalPathRemovesJob ==
    \A r \in Records :
        (/\ records[r].status \in Terminal
         /\ records[r].uuid # NoUuid
         /\ ~BusyRec(r)
         /\ notifs[r] # <<>>
         /\ notifs[r][Len(notifs[r])].kind \in JobPathKinds)
        => ~InRegistry(records[r].uuid)

\* C7: when the Rehydrator has finished, every record it found Processing
\* without a Generation UUID is Error (patched by the Rehydrator), has
\* no pending_jobs entry and no poller task querying the vendor for it.
C7_NoUuidFailedByRehydrator ==
    rehyd.pc = "done" =>
        \A r \in rhNoUuid :
            /\ records[r].status = "Error"
            /\ PatchesBy(r, "rehyd", "Error") # {}
            /\ \A j \in Jobs : pending_jobs[j].record_id # r
            /\ \A p \in PollIds : task[p].rec # r

C7_Witness ==
    /\ rehyd.pc = "done"
    /\ rhNoUuid # {}
    /\ crashes > 0

\* C8: every record that has reached a terminal outcome, with no path
\* working on it any more (and none cut short by a process death between
\* its patch and its message), has received exactly one per-job notification.
C8_OneNotificationPerOutcome ==
    \A r \in Records :
        (records[r].status \in Terminal /\ ~BusyRec(r) /\ r \notin cut)
        => Len(notifs[r]) = 1

\* record r was reconciled once, by path who alone, from a job that its
\* submission had put in pending_jobs, in one process lifetime in which
\* every Baserow call succeeded
OnlyBy(r, who) ==
    /\ crashes = 0
    /\ faults = 0
    /\ patches[r] = <<[st |-> "Completed", by |-> who, late |-> FALSE, mem |-> TRUE]>>
    /\ ~BusyRec(r)

\* C9: after a submission, a single completed webhook (and nothing else
\* reconciling the job) leaves the record Completed with the asset, one
\* success notification to the requester, and the job out of pending_jobs.
C9_WebhookEndToEnd ==
    \A r \in Records :
        OnlyBy(r, "web") =>
            /\ records[r].status = "Completed"
            /\ records[r].video = records[r].uuid
            /\ notifs[r] = <<[kind |-> "success", to |-> UserChat]>>
            /\ ~InRegistry(records[r].uuid)


C6_StaleJobEventuallyResolved ==
    \A r \in Records :
        (records[r].status = "Processing" /\ sinceSubmit[r] > STALE_THRESHOLD_MINUTES)
            ~> (records[r].status # "Processing")

\* C10: the final state of a job completed by the sweep alone is the final
\* state of a job completed by a webhook alone: same status, asset, derived
\* Post Queue rows and notifications, and the job out of pending_jobs.
Outcome(r) ==
    [status |-> records[r].status,
     asset |-> records[r].video = records[r].uuid,
     ready |-> records[r].ready,
     derived |-> post_queue[r],
     notes |-> notifs[r],
     pending |-> InRegistry(records[r].uuid)]

C10_SweepPathEqualsWebhookPath ==
    \A r1, r2 \in Records :
        (OnlyBy(r1, "web") /\ OnlyBy(r2, "sweep")) =>
            /\ Outcome(r1) = Outcome(r2)
            /\ ~Outcome(r2).pending

C10_Witness ==
    \E r1, r2 \in Records : OnlyBy(r1, "web") /\ OnlyBy(r2, "sweep")

\* C11: a completed or failed signal whose uuid is found neither in
\* pending_jobs nor on a row is dropped without any effect: the step that
\* drops it changes no row, no pending_jobs entry and sends no message.
C11_UnknownSignalDiscardedSilently ==
    [][discarded' # discarded =>
          UNCHANGED <<records, post_queue, pending_jobs, notifs, broadcast>>]_vars

\* C12: a failed signal (a VIDEO_GENERATION_FAILED webhook, or the sweep
\* reading vendor status 3) for a job whose row is already Completed or
\* Error patches nothing: no Error patch of the failed-webhook path or of
\* the sweep's failed branch lands on a row that is terminal.
C12_FailedSignalOnTerminalRecordIsNoOp ==
    [][\A r \in Records :
          (records[r].status \in Terminal /\ Len(patches'[r]) > Len(patches[r])) =>
              LET p == patches'[r][Len(patches'[r])]
              IN ~ /\ p.st = "Error"
                   /\ \/ p.by = "web"
                      \/ p.by = "sweep" /\ task[SweepId].event = "failed"]_vars

\* C13: a row that is Completed has its Video attached.
C13_CompletedCarriesAsset ==
    \A r \in Records : records[r].status = "Completed" => records[r].video # NoVideo

\* C14: when the sweep finds a job that the vendor reports as processing and
\* whose age does not exceed the threshold, that step changes no row, no
\* pending_jobs entry and sends nothing, and the loop moves on to its next
\* record (or ends the cycle) without starting a patch for this one.
C14_YoungRunningJobLeftAlone ==
    [][(/\ task[SweepId].pc = "sw_check"
        /\ task'[SweepId] # task[SweepId]
        /\ crashes' = crashes
        /\ Young(task[SweepId].uuid))
       => /\ UNCHANGED <<records, post_queue, pending_jobs, notifs, broadcast, patches>>
          /\ \/ task'[SweepId].pc \in {"idle", "sw_summary"}
             \/ task'[SweepId].rec # task[SweepId].rec]_vars

C14_Witness ==
    \E r \in sweptYoung :
        /\ records[r].status = "Processing"
        /\ InRegistry(records[r].uuid)
        /\ pending_jobs[records[r].uuid].age = STALE_THRESHOLD_MINUTES
        /\ notifs[r] = <<>>
        /\ patches[r] = <<>>
        /\ task[SweepId].pc = "idle"

\* C15: a delivery whose event is neither completed nor failed is handled in
\* one step: the handler logs it and returns, starting no further call, and
\* records, Post Queue, pending_jobs and both notification logs stay as
\* they were.
C15_OtherEventIgnored ==
    [][(\E j \in Jobs : "other" \in handled'[j] /\ "other" \notin handled[j])
       => UNCHANGED <<records, post_queue, pending_jobs, notifs, broadcast, patches, task>>]_vars

C15_Witness ==
    \E j \in Jobs :
        /\ "other" \in handled[j]
        /\ InRegistry(j)
        /\ records[pending_jobs[j].record_id].status = "Processing"
        /\ records[pending_jobs[j].record_id].uuid = j
        /\ notifs[pending_jobs[j].record_id] = <<>>
        /\ broadcast = NoBroadcast
        /\ \A t \in WebIds : task[t].pc = "idle"

\* no handler, command, sweep cycle or recovery task is between two awaits
Quiescent ==
    /\ phase = "serving"
    /\ gen.pc = "idle"
    /\ \A t \in TaskIds : task[t].pc = "idle"

\* C16: whenever nothing is in progress, every pending_jobs entry belongs to
\* a row that is Processing and stores that uuid (so reading the Processing
\* rows after a crash gives back the same set of uuids).
C16_RegistryMirrorsProcessingRows ==
    Quiescent =>
        \A j \in Jobs : InRegistry(j) =>
            /\ records[pending_jobs[j].record_id].status = "Processing"
            /\ records[pending_jobs[j].record_id].uuid = j

\* C17: when a call of the submission fails (update_record_status to
\* Processing, generate_video, or save_generation_uuid), the submission goes
\* to its failure path (row marked Error, failure message) and stores no
\* pending_jobs entry.
C17_FailedSubmissionAborted ==
    [][(/\ gen.pc \in {"g_patch", "g_submit", "g_save"}
        /\ gen' # gen
        /\ crashes' = crashes
        /\ \/ faults' # faults
           \/ gen.pc = "g_submit" /\ vendor' = vendor)
       => /\ gen'.pc = "g_err_patch"
          /\ pending_jobs' = pending_jobs]_vars

\* C18: pending_jobs never holds two entries with the same record_id.
C18_OneEntryPerRecord ==
    \A j, k \in Jobs :
        (InRegistry(j) /\ InRegistry(k) /\ pending_jobs[j].record_id = pending_jobs[k].record_id)
            => j = k

\* C19: the step of recover_pending_jobs that reads the Processing rows takes
\* all of them, and each step of its loop stores, for every row with a
\* Generation UUID it passes, a pending_jobs entry under that uuid with the
\* row's id, status 'recovering' and no chat id.
C19_RehydratedEntryShape ==
    [][(rehyd' # rehyd /\ crashes' = crashes /\ rehyd.pc \in {"rh_list", "rh_nouuid"})
       => LET snap == rehyd'.snap
              from == IF rehyd.pc = "rh_list" THEN 1 ELSE rehyd.idx + 1
          IN /\ rehyd.pc = "rh_list" =>
                    \A r \in Records : records[r].status = "Processing" =>
                        \E i \in 1..Len(snap) : snap[i] = [id |-> r, uuid |-> records[r].uuid]
             /\ \A i \in 1..Len(snap) :
                    (from <= i /\ i < rehyd'.idx /\ snap[i].uuid # NoUuid) =>
                        pending_jobs'[snap[i].uuid] =
                            [record_id |-> snap[i].id, status |-> "recovering",
                             chat_id |-> NoChat, age |-> 0]]_vars

C19_Witness ==
    \E j \in Jobs :
        /\ crashes > 0
        /\ rehyd.pc = "rh_notify"
        /\ InRegistry(j)
        /\ pending_jobs[j].status = "recovering"
        /\ pending_jobs[j].chat_id = NoChat
        /\ records[pending_jobs[j].record_id].status = "Processing"
        /\ records[pending_jobs[j].record_id].uuid = j

\* C20: in each process lifetime recover_pending_jobs runs to its end (the
\* calls it awaits answering), no sweep cycle is under way before it has
\* ended, and once ended it is started again only by a restart of the
\* process.
C20_RehydratorOnceBeforeSweep ==
    /\ [](task[SweepId].pc # "idle" => rehyd.pc = "done")
    /\ [][(task[SweepId].pc = "idle" /\ task'[SweepId].pc # "idle") => rehyd.pc = "done"]_vars
    /\ [][(rehyd.pc = "done" /\ rehyd' # rehyd) => crashes' = crashes + 1]_vars
    /\ \A c \in 0..MaxCrashes :
           (crashes = c /\ rehyd.pc # "done") ~> (rehyd.pc = "done" \/ crashes > c)

C20_Witness ==
    /\ crashes > 0
    /\ rehyd.pc = "done"
    /\ task[SweepId].pc = "sw_check"
    /\ \E j \in Jobs : InRegistry(j) /\ pending_jobs[j].status = "recovering"

\* C21: a sweep step that reads the vendor status of a job starts the
\* timeout path exactly when the vendor reports the job as processing and
\* more than STALE_THRESHOLD_MINUTES have passed since the submission stored
\* the job, also when the entry it finds was put there by
\* recover_pending_jobs.
C21_TimeoutCountsFromSubmission ==
    [][(/\ task[SweepId].pc = "sw_check"
        /\ task'[SweepId] # task[SweepId]
        /\ crashes' = crashes)
       => LET j == task[SweepId].uuid
          IN (vendor[j].st = "running" /\ SinceStarted(j) > STALE_THRESHOLD_MINUTES)
             <=> (task'[SweepId].pc = "sw_err_patch" /\ task'[SweepId].event = "timeout")]_vars

\* C22: no webhook handler and no recovery poller patches a record to Error
\* while the vendor still reports its job as processing; only the sweep's
\* age test may fail such a job.
C22_OnlySweepTimesOut ==
    [][\A t \in WebIds \cup PollIds :
          (/\ task[t].pc \in {"wf_patch", "p_patch"}
           /\ task'[t].pc # task[t].pc
           /\ crashes' = crashes)
          => vendor[task[t].uuid].st # "running"]_vars

\* times the record was declared without a job id or timed out: the sweep's
\* messages of these two kinds and the Rehydrator's Error patches
Declared(r) ==
    Cardinality({i \in DOMAIN notifs[r] : notifs[r][i].kind \in {"no_uuid", "timeout"}})
    + Cardinality(PatchesBy(r, "rehyd", "Error"))

\* C23: a record is declared without a job id or timed out at most once, and
\* once declared it is no longer Processing (so no later sweep cycle lists
\* it again).
C23_DeclaredOnceAndTerminal ==
    \A r \in Records :
        /\ Declared(r) <= 1
        /\ Declared(r) >= 1 => records[r].status # "Processing"

\* C24: create_post_queue_record raises after the Completed patch (its call
\* of get_next_available_slot fails), and the step that follows the patch
\* then sends exactly one "Video ready but save failed" message to the
\* job's audience, no success message, creates no Post Queue row and removes
\* the job from pending_jobs.
C24_FailureAfterPatchReported ==
    [][\A t \in TaskIds :
          (/\ task[t].pc = "cvg_notify"
           /\ task'[t].pc # "cvg_notify"
           /\ crashes' = crashes
           /\ get_next_available_slot = "NameError")
          => /\ notifs' = Notify(notifs, task[t].rec, "degraded", task[t].chat)
             /\ post_queue' = post_queue
             /\ pending_jobs'[task[t].uuid] = NoJob]_vars

C24_Witness ==
    \E r \in Records :
        /\ records[r].status = "Completed"
        /\ records[r].uuid \in processed
        /\ notifs[r] = <<[kind |-> "degraded", to |-> UserChat]>>
        /\ post_queue[r] = 0
        /\ ~InRegistry(records[r].uuid)

\* the step ends a sweep cycle: the task goes back to its sleep
CycleEnds ==
    /\ task[SweepId].pc # "idle"
    /\ task'[SweepId].pc = "idle"
    /\ crashes' = crashes

SweepExamines(j) ==
    /\ task[SweepId].uuid = j
    /\ SweepCheck

\* the cycle under way has listed job j and has not come to it yet
SweepStillToExamine(j) ==
    \E i \in 1..Len(sweep.snap) : i > sweep.idx /\ sweep.snap[i].uuid = j

\* C26: while the sweep's check_job_status call for job a is outstanding,
\* another job b of the same cycle, not yet examined, can be examined
\* without the call for a having returned.
C26_SlowCallDoesNotDelayOtherJob ==
    \A a, b \in Jobs :
        (/\ a # b
         /\ task[SweepId].pc = "sw_check"
         /\ task[SweepId].uuid = a
         /\ SweepStillToExamine(b))
        => ENABLED SweepExamines(b)

\* C27: when a Baserow call fails inside a step of the sweep for a record
\* that is Processing, the record is still Processing after the step (so the
\* next cycle lists it again).
C27_SweepStoreErrorLeavesProcessing ==
    [][(/\ faults' = faults + 1
        /\ task'[SweepId] # task[SweepId]
        /\ records[task[SweepId].rec].status = "Processing")
       => records'[task[SweepId].rec].status = "Processing"]_vars

\* C28: every function of baserow_client that asks Baserow treats a 401 as
\* transient: when the first answer to its request is 401 it clears the
\* cached token once, logs in again and, the login succeeding, sends the
\* request a second time; it never sends more than two requests, and after
\* any other failure it sends no second request.
C28_Retry401Once ==
    (call.fn \in Callers /\ call.pc = "done" /\ call.seen # <<>>) =>
        /\ Len(call.seen) <= RetryRange
        /\ call.seen[1] = "401" =>
               /\ call.cleared = 1
               /\ call.loginOk => (Len(call.seen) = 2 /\ call.logins >= 1)
        /\ call.seen[1] # "401" => (Len(call.seen) = 1 /\ call.cleared = 0)

\* the non-empty chat ids of a list, in order
RECURSIVE Addressed(_)
Addressed(ids) ==
    IF ids = <<>> THEN <<>>
    ELSE IF Head(ids) = NoChat THEN Addressed(Tail(ids))
         ELSE <<Head(ids)>> \o Addressed(Tail(ids))

FailedAt(c) == {i \in 1..Len(c.ids) : c.ids[i] # NoChat /\ c.outcome[i] # "200"}

\* C29: send_telegram_message never hands a delivery failure to its caller:
\* it always returns normally, and when the bot token is configured every
\* non-empty chat id of the list has been tried by then, whatever happened
\* to the ones before it, each failure having been logged.
C29_SendNeverEscalates ==
    call.fn = "send_telegram_message" =>
        /\ ~call.raised
        /\ (call.pc = "done" /\ call.token) =>
               /\ call.attempted = Addressed(call.ids)
               /\ call.logged = Cardinality(FailedAt(call))

\* a call that has returned after the first chat id failed and a later one
\* was delivered
C29_Witness ==
    /\ call.fn = "send_telegram_message"
    /\ call.pc = "done"
    /\ ~call.raised
    /\ Len(call.ids) = 2 /\ call.ids[1] # NoChat /\ call.outcome[1] = "none"
    /\ call.delivered = <<call.ids[2]>>
    /\ call.logged = 1

\* C30: the 'Video Generation Complete' message is sent for a record only
\* after a Completed patch of that record was applied, and a job that
\* complete_video_generation has finished with and removed from
\* pending_jobs is not still on a Processing row.
C30_SuccessOnlyAfterPatch ==
    \A r \in Records :
        /\ (\E i \in 1..Len(notifs[r]) : notifs[r][i].kind = "success")
              => (\E i \in 1..Len(patches[r]) : patches[r][i].st = "Completed")
        /\ \A j \in processed :
              (records[r].uuid = j /\ ~InRegistry(j)) => records[r].status # "Processing"

\* the record whose submission handle_generate_command has in flight:
\* marked Processing, its uuid not yet stored
InFlight(r) ==
    /\ gen.pc \in {"g_submit", "g_save"}
    /\ GenRec = r
    /\ records[r].status = "Processing"
    /\ records[r].uuid = NoUuid

\* C31: a sweep cycle never marks Error, as 'stuck without UUID', a record
\* whose submission is in flight (marked Processing by
\* handle_generate_command, the job id not yet saved).
C31_SweepSparesInFlightSubmission ==
    [][\A r \in Records :
          (/\ task[SweepId].pc = "sw_err_patch"
           /\ task[SweepId].event = "no_uuid"
           /\ task[SweepId].rec = r
           /\ records'[r].status = "Error")
          => ~InFlight(r)]_vars

\* C32: no pending_jobs entry stays for ever: with the sweep, the
\* Rehydrator and the clock running and every Baserow call succeeding, a
\* job that is in pending_jobs is eventually out of it.
C32_NoRegistryLeak ==
    \A j \in Jobs : InRegistry(j) ~> ~InRegistry(j)

\* C33: when a webhook or the sweep has already resolved a rehydrated job
\* and removed it from pending_jobs, the failure branch of its recovery
\* poller (poll_and_complete) patches nothing and sends nothing: the job
\* gets one terminal patch and one notification.
C33_PollerYieldsToOtherPath ==
    [][\A p \in PollIds :
          (/\ task[p].pc \in {"p_patch", "p_notify"}
           /\ task'[p].pc # task[p].pc
           /\ crashes' = crashes
           /\ ~InRegistry(task[p].uuid))
          => (patches' = patches /\ notifs' = notifs)]_vars

\* the failed outcome of r's job was reconciled once, by path who alone, in
\* one process lifetime in which every Baserow call succeeded
FailedOnlyBy(r, who) ==
    /\ crashes = 0
    /\ faults = 0
    /\ records[r].uuid # NoUuid
    /\ vendor[records[r].uuid].st = "failed"
    /\ patches[r] = <<[st |-> "Error", by |-> who, late |-> FALSE, mem |-> FALSE]>>
    /\ \A i \in 1..Len(notifs[r]) : notifs[r][i].kind = "failed"
    /\ ~BusyRec(r)

\* C34: a failed job reconciled by the sweep alone ends as a failed job
\* reconciled by a webhook alone: the record Error, the job out of
\* pending_jobs, and one failure message to the same audience.
C34_SweepFailureEqualsWebhookFailure ==
    \A r1, r2 \in Records :
        (FailedOnlyBy(r1, "web") /\ FailedOnlyBy(r2, "sweep")) =>
            /\ Outcome(r1) = Outcome(r2)
            /\ Len(notifs[r2]) = 1
            /\ ~Outcome(r2).pending

\* C35: a sweep cycle looks at every record its query returned, also when
\* the examination of one of them raised: when the cycle ends, the loop
\* has been through the whole list.
C35_CycleExaminesEveryRecord ==
    [][CycleEnds => sweep.idx >= Len(sweep.snap)]_vars

PollFinished == call.fn = "poll_for_completion" /\ call.pc = "done"

IncompleteCompleted ==
    \/ \E j \in Jobs : "completed_nourl" \in handled'[j] /\ "completed_nourl" \notin handled[j]
    \/ deliveries' = deliveries + 1 /\ handled' = handled /\ task' = task

\* C37: a completed webhook that lacks the job id or the asset url changes
\* nothing: no record, no Post Queue row, no message, no pending_jobs entry
\* and no patch differs after it, and no handler is left running; a job
\* that was in pending_jobs with its record Processing is still so.
C37_IncompleteCompletedIsNoOp ==
    [][IncompleteCompleted
       => UNCHANGED <<records, post_queue, pending_jobs, notifs, broadcast, patches, task>>]_vars

\* a completed delivery without media_url has been answered, and its job is
\* in pending_jobs, its record Processing, nothing sent
C37_Witness ==
    \E j \in Jobs :
        /\ "completed_nourl" \in handled[j]
        /\ vendor[j].st = "completed"
        /\ InRegistry(j)
        /\ records[pending_jobs[j].record_id].status = "Processing"
        /\ records[pending_jobs[j].record_id].uuid = j
        /\ notifs[pending_jobs[j].record_id] = <<>>
        /\ patches[pending_jobs[j].record_id] = <<>>
        /\ \A t \in WebIds : task[t].pc = "idle"

\* C38: get_ready_records, its request answered, returns a row of the
\* table if and only if the row is flagged Ready To Generate, its status is
\* Draft, it has a prompt and a target page; stats['ready'] is the number
\* of rows returned.
C38_ReadyRecordsExactlyTheReadyRows ==
    (call.fn = "get_ready_records" /\ call.pc = "done" /\ call.answer = "200") =>
        /\ \A i \in 1..TableRows : (i \in Range(call.result)) <=> IsReady(call.table[i])
        /\ call.stats.ready = Len(call.result)

\* C39: get_next_available_slot returns the earliest posting slot of the
\* days it looks at, in Cambodia time, that is later than now and names the
\* instant of no scheduled slot, and tomorrow's first posting hour only
\* when every such slot is taken.
C39_EarliestFreeSlot ==
    (call.fn = "get_next_available_slot" /\ call.pc = "done") =>
        LET now_cambodia == call.now_utc + CambodiaOffset
            Passes == 0..(DaysAhead * Len(POSTING_TIMES) - 1)
            Open == {SlotTime(now_cambodia, n) : n \in Passes}
            Free == {s \in Open :
                        /\ s > now_cambodia
                        /\ \A t \in call.scheduled_slots :
                               Instant(t) # s - CambodiaOffset}
            r == call.result
        IN /\ call.returned
           /\ r.off = CambodiaOffset
           /\ IF Free # {}
              THEN r.wall \in Free /\ \A s \in Free : r.wall <= s
              ELSE r.wall = ((now_cambodia \div DayHours) + 1) * DayHours + POSTING_TIMES[1]

\* C40: in the long-poll loop no update is handed to handle_telegram_message
\* more than once, the offset of the next getUpdates request is greater than
\* the update_id of every update the loop has consumed, also after the
\* handler raised in the middle of a batch, and an update without a chat id
\* is never handed to the handler.
C40_EachUpdateDispatchedAtMostOnce ==
    call.fn = "poll_telegram_updates" =>
        /\ \A u \in UpdateIds : call.dispatched[u] <= 1
        /\ call.pc = "get" => \A u \in call.consumed : call.offset > u
        /\ \A u \in 1..Len(call.updates) : ~call.updates[u] => call.dispatched[u] = 0

\* the handler raised on an update in the middle of a batch, the rest of the
\* batch came again with the next answer and was dispatched then, and an
\* update without a chat id was passed over
C40_Witness ==
    /\ call.fn = "poll_telegram_updates"
    /\ call.pc = "get"
    /\ call.raised = 1
    /\ call.requests = 2
    /\ call.consumed = UpdateIds
    /\ \E u \in UpdateIds : call.received[u] = 2 /\ call.dispatched[u] = 1
    /\ \E u \in UpdateIds : ~call.updates[u] /\ call.received[u] > 0

====
